---------------------------- MODULE Spec2Model ----------------------------
(***************************************************************************)
(* Model of convert_excel_to_sqlite.py: the spreadsheet normalisation      *)
(* pipeline (merge resolution, blank-row trimming, header detection,       *)
(* identifier sanitisation, table assembly, metadata writer).              *)
(*                                                                         *)
(* A Python str is a sequence of one-character strings; a cell value is a  *)
(* record tagged "none" / "str" / "int".  Each function of the script is   *)
(* an operator computed the way the code computes it, and each group of    *)
(* functions has a specification that draws the inputs in Init and applies *)
(* the functions in its actions.                                           *)
(***************************************************************************)
EXTENDS Integers, Sequences, FiniteSets, TLC

VARIABLES
    pc,               \* control point of the operation in progress
    text,             \* sanitise_identifier: argument text
    fallback_prefix,  \* sanitise_identifier: argument fallback_prefix
    identifier,       \* sanitise_identifier: the call's outcome
    resanitised,      \* sanitise_identifier: the outcome of a call on the identifier
    raw_headers,      \* build_headers: argument
    headers,          \* build_headers: return value
    rows,             \* the row list handed to the row functions
    max_scan,         \* detect_header_index: argument max_scan
    remainder,        \* drop_leading_blank_rows: return value
    header_idx,       \* detect_header_index: return value
    detect_exc,       \* detect_header_index: the exception it raised, or "none"
    payload,          \* worksheet_to_dataframe: return value
    ws,               \* the worksheet object unmerge_cells works on
    loaded,           \* the worksheet as it was when unmerge_cells was called
    unmerged_once,    \* the worksheet as the first unmerge_cells call left it
    db,               \* the committed content of the database file at db_path
    conn,             \* the sqlite3 connection of write_payloads_to_db
    payloads,         \* write_payloads_to_db: argument payloads
    payload_no,       \* write_payloads_to_db: the loop's place in payloads (from 1)
    exc,              \* the exception raised in write_payloads_to_db, or "none"
    before,           \* db as it was when write_payloads_to_db was called
    opens,            \* write_payloads_to_db: sqlite3.connect calls of the invocation
    closes,           \* write_payloads_to_db: conn.close calls of the invocation
    name_stem,        \* build_table_name: argument file_stem
    name_sheet,       \* build_table_name: argument sheet_name
    built_name,       \* build_table_name: return value
    excel_files,      \* main: args.excel_files, the path arguments
    excel_paths,      \* main: the list resolve_files returned
    path_no,          \* main: the loop's place in excel_paths (from 1)
    all_payloads,     \* main: the payloads collected so far
    opened,           \* the paths load_workbook was called on, in call order
    termination,      \* main: how the run ended, once it has
    table_rows,       \* _do_import: the data rows get_rows(run) yields
    tabular,          \* _do_import: table.tabular
    start_row,        \* _do_import: table.start_row
    i_bound,          \* _do_import: whether the local name i is bound
    loop_i,           \* _do_import: the value of i, when bound
    skipped,          \* _do_import: the list skipped
    record_set,       \* run.record_set: the records saved, in order
    log_events,       \* run.log: the events added, in order
    record_count,     \* _do_import: run.record_count
    import_status,    \* _do_import: the call's outcome
    farmers,          \* the rows of the farmers table
    field_value,      \* FarmerByNameField.to_internal_value: argument value
    farmer_found,     \* FarmerByNameField.to_internal_value: the call's outcome
    request,          \* _handle_upload: the POST request (FILES and POST data)
    form,             \* _handle_upload: the upload form after is_valid()
    wizard_db,        \* the FileSource, Run and ImportRunMetadata rows
    wizard_before,    \* wizard_db as it was when the request arrived
    response          \* _handle_upload: the response returned

sanitiseVars == <<text, fallback_prefix, identifier, resanitised>>
headerVars == <<raw_headers, headers>>
rowVars == <<rows, max_scan, remainder, header_idx, detect_exc, payload>>
sheetVars == <<ws, loaded, unmerged_once>>
dbVars == <<db, conn, payloads, payload_no, exc, before, opens, closes>>

nameVars == <<name_stem, name_sheet, built_name>>
mainVars == <<excel_files, excel_paths, path_no, all_payloads, opened, termination>>
importVars ==
    <<table_rows, tabular, start_row, i_bound, loop_i, skipped, record_set, log_events,
      import_status, record_count>>
farmerVars == <<farmers, field_value, farmer_found>>
uploadVars == <<request, form, wizard_db, wizard_before, response>>
wizardVars == <<farmerVars, uploadVars>>
laterVars == <<nameVars, mainVars, importVars, wizardVars>>

vars == <<pc, sanitiseVars, headerVars, rowVars, sheetVars, dbVars, laterVars>>

-----------------------------------------------------------------------------
(* Characters and Python str primitives                                    *)

Digits == <<"0", "1", "2", "3", "4", "5", "6", "7", "8", "9">>

UpperLetters ==
    <<"A", "B", "C", "D", "E", "F", "G", "H", "I", "J", "K", "L", "M",
      "N", "O", "P", "Q", "R", "S", "T", "U", "V", "W", "X", "Y", "Z">>

LowerLetters ==
    <<"a", "b", "c", "d", "e", "f", "g", "h", "i", "j", "k", "l", "m",
      "n", "o", "p", "q", "r", "s", "t", "u", "v", "w", "x", "y", "z">>

Range(f) == {f[i] : i \in DOMAIN f}

DigitChars == Range(Digits)

\* the character class [0-9a-zA-Z_] of the two regular expressions
IdentChars == DigitChars \cup Range(UpperLetters) \cup Range(LowerLetters) \cup {"_"}

\* str.isspace() on the characters of the model
SpaceChars == {" ", "\t", "\n"}

\* str.swapcase() on one character
swapcase_char(c) ==
    IF \E i \in DOMAIN UpperLetters : UpperLetters[i] = c
    THEN LowerLetters[CHOOSE i \in DOMAIN UpperLetters : UpperLetters[i] = c]
    ELSE IF \E i \in DOMAIN LowerLetters : LowerLetters[i] = c
    THEN UpperLetters[CHOOSE i \in DOMAIN LowerLetters : LowerLetters[i] = c]
    ELSE c

\* str.lower() on one character
lower_char(c) ==
    IF \E i \in DOMAIN UpperLetters : UpperLetters[i] = c
    THEN LowerLetters[CHOOSE i \in DOMAIN UpperLetters : UpperLetters[i] = c]
    ELSE c

\* str.lower()
str_lower(s) == [i \in DOMAIN s |-> lower_char(s[i])]

RECURSIVE lstrip(_, _)
\* str.lstrip(chars)
lstrip(s, chars) ==
    IF s # <<>> /\ Head(s) \in chars THEN lstrip(Tail(s), chars) ELSE s

RECURSIVE rstrip(_, _)
\* str.rstrip(chars)
rstrip(s, chars) ==
    IF s # <<>> /\ s[Len(s)] \in chars
    THEN rstrip(SubSeq(s, 1, Len(s) - 1), chars)
    ELSE s

\* str.strip(chars); str.strip() is str_strip(s, SpaceChars)
str_strip(s, chars) == rstrip(lstrip(s, chars), chars)

RECURSIVE skip_non_identifier(_)
skip_non_identifier(s) ==
    IF s # <<>> /\ Head(s) \notin IdentChars THEN skip_non_identifier(Tail(s)) ELSE s

RECURSIVE re_sub_non_identifier(_)
\* re.sub(r"[^0-9a-zA-Z_]+", "_", s): every maximal run of characters outside
\* the class becomes one underscore
re_sub_non_identifier(s) ==
    IF s = <<>> THEN <<>>
    ELSE IF Head(s) \notin IdentChars
         THEN <<"_">> \o re_sub_non_identifier(skip_non_identifier(Tail(s)))
         ELSE <<Head(s)>> \o re_sub_non_identifier(Tail(s))

RECURSIVE re_sub_underscores(_)
\* re.sub(r"_+", "_", s): every maximal run of underscores becomes one
re_sub_underscores(s) ==
    IF s = <<>> THEN <<>>
    ELSE IF Head(s) = "_"
         THEN <<"_">> \o re_sub_underscores(lstrip(Tail(s), {"_"}))
         ELSE <<Head(s)>> \o re_sub_underscores(Tail(s))

RECURSIVE nat_digits(_)
nat_digits(n) ==
    IF n < 10 THEN <<Digits[n + 1]>>
    ELSE nat_digits(n \div 10) \o <<Digits[(n % 10) + 1]>>

\* str(n) for an int
int_str(n) == IF n < 0 THEN <<"-">> \o nat_digits(-n) ELSE nat_digits(n)

-----------------------------------------------------------------------------
(* sanitise_identifier                                                     *)

\* The characters a text is drawn from: a lower-case letter, an upper-case
\* letter, a digit, the underscore, white space and punctuation.
TextAlphabet == {"a", "B", "2", "_", " ", "-"}

MaxTextLen == 4

RECURSIVE StringsUpTo(_, _)
StringsUpTo(alphabet, n) ==
    IF n = 0 THEN {<<>>}
    ELSE LET shorter == StringsUpTo(alphabet, n - 1)
         IN  shorter \cup {<<c>> \o s : c \in alphabet, s \in {t \in shorter : Len(t) = n - 1}}

Texts == StringsUpTo(TextAlphabet, MaxTextLen)

\* The fallback prefixes: the ones the script passes ("column", "table",
\* "column_1"), and other values the parameter accepts.
FallbackPrefixes ==
    { <<"c", "o", "l", "u", "m", "n">>,
      <<"t", "a", "b", "l", "e">>,
      <<"c", "o", "l", "u", "m", "n", "_", "1">>,
      <<"9", "x">>,
      <<"T", "_", "1">>,
      <<"m", "y", " ", "c", "o", "l">>,
      <<>> }

\* sanitise_text without the fallback of lines 140-141
sanitise_text_no_fallback(t, fallback) ==
    str_strip(re_sub_underscores(re_sub_non_identifier(str_lower(str_strip(t, SpaceChars)))), {"_"})

\* lines 137-141: the text after stripping, lower-casing, the two
\* substitutions, the underscore strip and the fallback
sanitise_text(t, fallback) ==
    LET lowered   == str_lower(str_strip(t, SpaceChars))
        replaced  == re_sub_non_identifier(lowered)
        collapsed == str_strip(re_sub_underscores(replaced), {"_"})
    IN  IF collapsed = <<>> THEN fallback ELSE collapsed

\* An outcome of a call: the value returned, or the exception raised.
Returned(v) == [exc |-> "none", val |-> v]
Raised(e) == [exc |-> e, val |-> <<>>]

\* sanitise_outcome with the leading-digit guard of lines 142-143 left out
sanitise_outcome_no_digit_guard(t, fallback) ==
    LET cleaned == sanitise_text(t, fallback)
    IN  IF cleaned = <<>> THEN Raised("IndexError") ELSE Returned(cleaned)

\* lines 142-144; text[0] of an empty str raises IndexError
sanitise_outcome(t, fallback) ==
    LET cleaned == sanitise_text(t, fallback)
    IN  IF cleaned = <<>> THEN Raised("IndexError")
        ELSE IF cleaned[1] \in DigitChars THEN Returned(<<"_">> \o cleaned)
        ELSE Returned(cleaned)

\* the value sanitise_identifier returns (when it returns)
sanitise_identifier(t, fallback) == sanitise_outcome(t, fallback).val

NoOutcome == Raised("not called")

-----------------------------------------------------------------------------
(* Cell values and build_headers                                           *)

None == [k |-> "none", s |-> <<>>, n |-> 0]
StrCell(chars) == [k |-> "str", s |-> chars, n |-> 0]
IntCell(m) == [k |-> "int", s |-> <<>>, n |-> m]

\* str(value)
py_str(cell) ==
    CASE cell.k = "str" -> cell.s
      [] cell.k = "int" -> int_str(cell.n)
      [] OTHER -> <<"N", "o", "n", "e">>

\* value in (None, "")
in_none_or_empty(cell) == cell = None \/ cell = StrCell(<<>>)

\* f"{fallback_prefix}_{idx + 1}", with position = idx + 1
positional_name(fallback, position) == fallback \o <<"_">> \o int_str(position)

\* line 151
header_text(header, fallback, position) ==
    IF ~in_none_or_empty(header) THEN py_str(header)
    ELSE positional_name(fallback, position)

\* emit_header appending the count of earlier occurrences, not the occurrence number
emit_header_off_by_one(base_name, count) ==
    IF count # 0 THEN base_name \o <<"_">> \o int_str(count) ELSE base_name

\* lines 155-158: the name appended for a base name seen `count` times before
emit_header(base_name, count) ==
    IF count # 0 THEN base_name \o <<"_">> \o int_str(count + 1) ELSE base_name

\* counts.get(base_name, 0)
counts_get(counts, base_name) ==
    IF base_name \in DOMAIN counts THEN counts[base_name] ELSE 0

\* counts[base_name] = value
counts_set(counts, base_name, value) ==
    [b \in DOMAIN counts \cup {base_name} |-> IF b = base_name THEN value ELSE counts[b]]

RECURSIVE build_headers_loop(_, _, _, _, _)
\* lines 150-158: the loop body at position (= idx + 1), then the rest
build_headers_loop(raw, fallback, position, counts, acc) ==
    IF position > Len(raw) THEN acc
    ELSE LET base_name == sanitise_identifier(
                              header_text(raw[position], fallback, position),
                              positional_name(fallback, position))
             count == counts_get(counts, base_name)
         IN  build_headers_loop(raw, fallback, position + 1,
                                counts_set(counts, base_name, count + 1),
                                Append(acc, emit_header(base_name, count)))

\* lines 147-159
build_headers(raw, fallback) == build_headers_loop(raw, fallback, 1, <<>>, <<>>)

column == <<"c", "o", "l", "u", "m", "n">>

\* Raw header cells: missing, empty, blank, repeated, differing in case only,
\* ending in a numeric suffix, digit-leading, numeric, punctuation only, and
\* one spelled like a positional fallback.
RawHeaderPool ==
    { None, StrCell(<<>>), StrCell(<<" ">>), StrCell(<<"a">>), StrCell(<<"A">>),
      StrCell(<<"a", "_", "2">>), StrCell(<<"a", " ", "2">>), StrCell(<<"2">>), IntCell(2),
      StrCell(<<"-">>), StrCell(column \o <<"_", "2">>) }

MaxHeaders == 3

RECURSIVE SeqsUpTo(_, _)
SeqsUpTo(S, n) ==
    IF n = 0 THEN {<<>>}
    ELSE LET shorter == SeqsUpTo(S, n - 1)
         IN  shorter \cup {Append(q, x) : q \in {t \in shorter : Len(t) = n - 1}, x \in S}

-----------------------------------------------------------------------------
(* Worksheets: unmerge_cells                                               *)

\* A worksheet: its title, its cell grid (a list of rows of equal width,
\* ws.cell(row, column).value = cells[row][column]) and its declared merged
\* ranges in the order of ws.merged_cells.ranges.
Worksheet(title, cells, merged) == [title |-> title, cells |-> cells, merged |-> merged]

CellRange(min_row, min_col, max_row, max_col) ==
    [min_row |-> min_row, min_col |-> min_col, max_row |-> max_row, max_col |-> max_col]

InRange(r, c, range) ==
    /\ range.min_row <= r /\ r <= range.max_row
    /\ range.min_col <= c /\ c <= range.max_col

\* lines 97-101 with the test of line 100 left out: every cell is overwritten
fill_range_overwrite(cells, range, value) ==
    [r \in DOMAIN cells |->
        [c \in DOMAIN cells[r] |->
            IF InRange(r, c, range) THEN value ELSE cells[r][c]]]

\* lines 97-101: the cells of the range that hold None or "" take the value
fill_range(cells, range, value) ==
    [r \in DOMAIN cells |->
        [c \in DOMAIN cells[r] |->
            IF InRange(r, c, range) /\ in_none_or_empty(cells[r][c])
            THEN value
            ELSE cells[r][c]]]

RECURSIVE unmerge_loop(_, _)
\* lines 88-101: one iteration per declared range; the range's declaration
\* is removed (line 96) and its cells are filled with the top-left value
unmerge_loop(sheet, todo) ==
    IF todo = <<>> THEN sheet
    ELSE LET range == Head(todo)
             value == sheet.cells[range.min_row][range.min_col]
         IN  unmerge_loop(
                 Worksheet(sheet.title,
                           fill_range(sheet.cells, range, value),
                           SelectSeq(sheet.merged, LAMBDA m : m # range)),
                 Tail(todo))

\* unmerge_cells taking the whole grid for a merged range as well
unmerge_cells_whole_grid(sheet) ==
    IF sheet.cells = <<>> THEN sheet
    ELSE unmerge_loop(sheet,
                      <<CellRange(1, 1, Len(sheet.cells), Len(sheet.cells[1]))>> \o sheet.merged)

\* lines 85-101
unmerge_cells(sheet) == unmerge_loop(sheet, sheet.merged)

\* line 104-105 and line 174: list(ws.values)
iter_worksheet_values(sheet) == sheet.cells

-----------------------------------------------------------------------------
(* Row functions                                                           *)

\* cell is None or (isinstance(cell, str) and not cell.strip())
is_blank_cell(cell) ==
    cell = None \/ (cell.k = "str" /\ str_strip(cell.s, SpaceChars) = <<>>)

\* lines 114-115
is_blank_row(row) == \A c \in DOMAIN row : is_blank_cell(row[c])

RECURSIVE dropwhile_blank(_)
\* itertools.dropwhile(_is_blank_row, iterator)
dropwhile_blank(rs) ==
    IF rs # <<>> /\ is_blank_row(Head(rs)) THEN dropwhile_blank(Tail(rs)) ELSE rs

\* a trimmer that removes every blank row, not only the leading ones
drop_all_blank_rows(rs) == SelectSeq(rs, LAMBDA row : ~is_blank_row(row))

\* lines 108-111
drop_leading_blank_rows(rs) == dropwhile_blank(rs)

RECURSIVE row_score(_)
\* lines 123-130
row_score(row) ==
    IF row = <<>> THEN 0
    ELSE LET cell == Head(row)
         IN  (IF cell = None THEN 0
              ELSE IF cell.k = "str"
                   THEN (IF str_strip(cell.s, SpaceChars) # <<>> THEN 1 ELSE 0)
                   ELSE 1)
             + row_score(Tail(row))

Min(a, b) == IF a <= b THEN a ELSE b

\* line 131 with >= in place of >: a later row of equal score displaces
is_better_or_equal(score, best_score) == score >= best_score

\* line 131
is_better(score, best_score) == score > best_score

RECURSIVE detect_loop(_, _, _, _, _)
\* lines 121-132: idx counts from 0 as in the code; rows[idx] is rs[idx + 1]
detect_loop(rs, scan, idx, best_idx, best_score) ==
    IF idx >= scan THEN best_idx
    ELSE LET score == row_score(rs[idx + 1])
         IN  IF is_better(score, best_score)
             THEN detect_loop(rs, scan, idx + 1, idx, score)
             ELSE detect_loop(rs, scan, idx + 1, best_idx, best_score)

\* a scan over every row, whatever max_scan is
scan_limit_every_row(scan, n) == n

\* line 119
scan_limit(scan, n) == Min(scan, n)

\* lines 118-133; rows[idx] beyond the last row raises IndexError
detect_header_outcome(rs, scan) ==
    LET limit == scan_limit(scan, Len(rs))
    IN  IF limit > Len(rs) THEN Raised("IndexError")
        ELSE Returned(detect_loop(rs, limit, 0, 0, -1))

\* the value detect_header_index returns (when it returns)
detect_header_index(rs, scan) == detect_header_outcome(rs, scan).val

-----------------------------------------------------------------------------
(* Table assembly                                                          *)

\* A source file is a path: its stem and its suffix; str(path) joins them.
SourceFile(stem, suffix) == [stem |-> stem, suffix |-> suffix]
path_str(file) == file.stem \o file.suffix

table == <<"t", "a", "b", "l", "e">>

\* build_table_name without the slice of line 165
build_table_name_untruncated(file_stem, sheet_name) ==
    sanitise_identifier(file_stem \o <<"_">> \o sheet_name, table)

\* lines 162-165
build_table_name(file_stem, sheet_name) ==
    LET base == file_stem \o <<"_">> \o sheet_name
        table_name == sanitise_identifier(base, table)
    IN  SubSeq(table_name, 1, Min(63, Len(table_name)))

\* DataFrame(data_rows, columns=headers)
DataFrame(columns, data) == [columns |-> columns, data |-> data]

\* pandas isna() on a cell: None is missing, a str (even blank) or an int is not
is_na(cell) == cell = None

\* df.dropna(how="all"): the rows whose every value is missing are dropped
dropna_all(df) ==
    DataFrame(df.columns,
              SelectSeq(df.data, LAMBDA row : \E c \in DOMAIN row : ~is_na(row[c])))

\* df.empty
df_empty(df) == df.data = <<>> \/ df.columns = <<>>

NonePayload == [is_none |-> TRUE]

WorksheetPayload(table_name, original_headers, dataframe, source_file, sheet_name) ==
    [is_none |-> FALSE, table_name |-> table_name,
     original_headers |-> original_headers, dataframe |-> dataframe,
     source_file |-> source_file, sheet_name |-> sheet_name]

\* the header texts with the cells that are None left out
original_headers_without_none(header_row) ==
    LET present == SelectSeq(header_row, LAMBDA cell : cell # None)
    IN  [c \in DOMAIN present |-> py_str(present[c])]

\* line 191: [str(col) if col is not None else "" for col in header_row]
original_headers_of(header_row) ==
    [c \in DOMAIN header_row |->
        IF header_row[c] # None THEN py_str(header_row[c]) ELSE <<>>]

\* lines 168-197
worksheet_to_dataframe(source_file, sheet, max_header_scan) ==
    LET unmerged == unmerge_cells(sheet)
        trimmed  == drop_leading_blank_rows(iter_worksheet_values(unmerged))
    IN  IF trimmed = <<>> THEN NonePayload
        ELSE LET idx        == detect_header_index(trimmed, max_header_scan)
                 header_row == trimmed[idx + 1]
                 data_rows  == SubSeq(trimmed, idx + 2, Len(trimmed))
                 df         == dropna_all(DataFrame(build_headers(header_row, column), data_rows))
             IN  IF df_empty(df) THEN NonePayload
                 ELSE WorksheetPayload(
                          build_table_name(source_file.stem, unmerged.title),
                          original_headers_of(header_row),
                          df, source_file, unmerged.title)

-----------------------------------------------------------------------------
(* The database: sqlite3 connection and pandas to_sql                      *)

\* The content of a database: the data tables by name, and the rows of the
\* two side tables.  The side tables are created if absent (lines 203-222)
\* before any row is written; an absent side table is an empty one here.
Database(tables, table_metadata, column_metadata) ==
    [tables |-> tables, table_metadata |-> table_metadata,
     column_metadata |-> column_metadata]

EmptyTables == [name \in {} |-> DataFrame(<<>>, <<>>)]
EmptyDatabase == Database(EmptyTables, {}, {})

\* A connection: closed or open, and while open the content it sees (its
\* uncommitted changes included) and whether a transaction is open.
Connection(state, view, in_transaction) ==
    [state |-> state, view |-> view, in_transaction |-> in_transaction]

NoConnection == Connection("none", EmptyDatabase, FALSE)

put_table(tables, name, df) ==
    [t \in DOMAIN tables \cup {name} |-> IF t = name THEN df ELSE tables[t]]

drop_table(tables, name) == [t \in DOMAIN tables \ {name} |-> tables[t]]

\* to_sql(..., if_exists="append"): the rows are added to the existing table
to_sql_append(tables, p) ==
    IF p.table_name \in DOMAIN tables
    THEN put_table(tables, p.table_name,
                   DataFrame(p.dataframe.columns,
                             tables[p.table_name].data \o p.dataframe.data))
    ELSE put_table(tables, p.table_name, p.dataframe)

\* a write that leaves an existing table of the name as it is
to_sql_keep_existing(tables, p) ==
    IF p.table_name \in DOMAIN tables THEN tables
    ELSE put_table(tables, p.table_name, p.dataframe)

\* line 225, to_sql(..., if_exists="replace", index=False): an existing table
\* of the name is dropped and the table is created with the frame's rows
to_sql_replace(tables, p) == put_table(tables, p.table_name, p.dataframe)

\* line 227: REPLACE INTO table_metadata; the row of the same table_name
\* (the primary key) is deleted and the new row inserted
replace_table_metadata(relation, row) ==
    {r \in relation : r.table_name # row.table_name} \cup {row}

\* an insert that keeps the row already stored under the primary key
insert_column_metadata(relation, row) == relation \cup {row}

\* line 231: REPLACE INTO column_metadata; the row of the same
\* (table_name, column_position) is deleted and the new row inserted
replace_column_metadata(relation, row) ==
    {r \in relation :
        <<r.table_name, r.column_position>> # <<row.table_name, row.column_position>>}
    \cup {row}

\* lines 226-229
table_metadata_row(p) ==
    [table_name |-> p.table_name, source_file |-> path_str(p.source_file),
     worksheet |-> p.sheet_name]

\* the row with column_position counted from 1
column_metadata_row_from_one(p, position) ==
    [table_name |-> p.table_name, column_position |-> position + 1,
     column_name |-> p.dataframe.columns[position + 1],
     original_header |-> p.original_headers[position + 1]]

\* lines 233-238; column_position counts from 0
column_metadata_row(p, position) ==
    [table_name |-> p.table_name, column_position |-> position,
     column_name |-> p.dataframe.columns[position + 1],
     original_header |-> p.original_headers[position + 1]]

RECURSIVE executemany_column_metadata(_, _, _)
\* lines 230-241: one REPLACE per column position, in order
executemany_column_metadata(relation, p, position) ==
    IF position >= Len(p.dataframe.columns) THEN relation
    ELSE executemany_column_metadata(
             replace_column_metadata(relation, column_metadata_row(p, position)),
             p, position + 1)

IdleDb ==
    /\ db = EmptyDatabase /\ conn = NoConnection /\ payloads = <<>>
    /\ payload_no = 0 /\ exc = "none" /\ before = EmptyDatabase
    /\ opens = 0 /\ closes = 0

-----------------------------------------------------------------------------
(* Inputs                                                                  *)

\* Cells of a grid: missing, blank text, text, and a number.
CellPool == {None, StrCell(<<" ">>), StrCell(<<"h">>), IntCell(0)}

\* ws.values yields rows of one width: the rows of two cells
RowPool == {<<a, b>> : a, b \in CellPool}

MaxRows == 3

\* max_scan: a negative number, nothing scanned, one row, two rows, and the
\* default
ScanDepths == {-1, 0, 1, 2, 10}

survey_xlsx == SourceFile(<<"s", "u", "r", "v", "e", "y">>, <<".", "x", "l", "s", "x">>)
plot_a == <<"P", "l", "o", "t", " ", "A">>

h_ == StrCell(<<"h">>)
\* rows of five cells with scores 3, 5, 5, 2 (section 8 of the spec), and the
\* same rows behind a blank row
ScoreRows ==
    << <<h_, h_, h_, None, None>>, <<h_, h_, h_, h_, h_>>,
       <<IntCell(0), h_, h_, h_, h_>>, <<h_, StrCell(<<" ">>), None, h_, None>> >>

ExampleGrids == {ScoreRows, <<<<None, None, None, None, None>>>> \o ScoreRows}

IdleHeaders == raw_headers = <<>> /\ headers = <<>>
IdleSanitise ==
    /\ text = <<>> /\ fallback_prefix = <<>>
    /\ identifier = NoOutcome /\ resanitised = NoOutcome
IdleRows ==
    /\ rows = <<>> /\ max_scan = 0 /\ remainder = <<>>
    /\ header_idx = 0 /\ detect_exc = "none" /\ payload = NonePayload
IdleSheet ==
    /\ ws = Worksheet(<<>>, <<>>, <<>>)
    /\ loaded = Worksheet(<<>>, <<>>, <<>>)
    /\ unmerged_once = Worksheet(<<>>, <<>>, <<>>)

IdleName == name_stem = <<>> /\ name_sheet = <<>> /\ built_name = <<>>
IdleMain ==
    /\ excel_files = <<>> /\ excel_paths = <<>> /\ path_no = 0
    /\ all_payloads = <<>> /\ opened = <<>> /\ termination = NoOutcome
IdleImport ==
    /\ table_rows = <<>> /\ tabular = FALSE /\ start_row = 0
    /\ i_bound = FALSE /\ loop_i = 0 /\ skipped = <<>>
    /\ record_set = <<>> /\ log_events = <<>> /\ import_status = NoOutcome
    /\ record_count = 0
IdleFarmer == farmers = <<>> /\ field_value = None /\ farmer_found = NoOutcome
IdleUpload ==
    /\ request = <<>> /\ form = <<>> /\ wizard_db = <<>> /\ wizard_before = <<>>
    /\ response = <<>>
IdleWizard == IdleFarmer /\ IdleUpload
IdleLater == IdleName /\ IdleMain /\ IdleImport /\ IdleWizard

InitRows ==
    /\ pc = "rows"
    /\ rows \in SeqsUpTo(RowPool, MaxRows) \cup ExampleGrids
    /\ max_scan \in ScanDepths
    /\ remainder = <<>>
    /\ header_idx = 0
    /\ detect_exc = "none"
    /\ payload = NonePayload
    /\ IdleSanitise /\ IdleHeaders /\ IdleSheet /\ IdleDb /\ IdleLater

CallDropLeadingBlankRows ==
    /\ pc = "rows"
    /\ remainder' = drop_leading_blank_rows(rows)
    /\ pc' = "dropped"
    /\ UNCHANGED <<rows, max_scan, header_idx, detect_exc, payload, sanitiseVars, headerVars, sheetVars, dbVars, laterVars>>

CallDetectHeaderIndex ==
    /\ pc = "rows"
    /\ header_idx' = detect_header_index(rows, max_scan)
    /\ detect_exc' = detect_header_outcome(rows, max_scan).exc
    /\ pc' = "detected"
    /\ UNCHANGED <<rows, max_scan, remainder, payload, sanitiseVars, headerVars, sheetVars, dbVars, laterVars>>

\* worksheet_to_dataframe on a worksheet whose values are `rows`
CallWorksheetToDataframe ==
    /\ pc = "rows"
    /\ payload' = worksheet_to_dataframe(survey_xlsx, Worksheet(plot_a, rows, <<>>), max_scan)
    /\ pc' = "assembled"
    /\ UNCHANGED <<rows, max_scan, remainder, header_idx, detect_exc, sanitiseVars, headerVars, sheetVars, dbVars, laterVars>>

NextRows ==
    \/ CallDropLeadingBlankRows
    \/ CallDetectHeaderIndex
    \/ CallWorksheetToDataframe

SpecRows == InitRows /\ [][NextRows]_vars

\* Cells of a worksheet with merged ranges: missing, the empty string, a text.
MergeCellPool == {None, StrCell(<<>>), h_}

\* the grids of two rows of three cells
SheetGrids ==
    {<<<<a, b, c>>, <<d, e, f>>>> : a, b, c, d, e, f \in MergeCellPool}

\* the rectangles of more than one cell inside a grid of the pool
SheetRanges ==
    {range \in [min_row : 1..2, min_col : 1..3, max_row : 1..2, max_col : 1..3] :
        /\ range.min_row <= range.max_row
        /\ range.min_col <= range.max_col
        /\ <<range.min_row, range.min_col>> # <<range.max_row, range.max_col>>}

RangesOverlap(a, b) ==
    /\ a.min_row <= b.max_row /\ b.min_row <= a.max_row
    /\ a.min_col <= b.max_col /\ b.min_col <= a.max_col

MaxRanges == 2

\* The merged ranges a worksheet declares do not overlap (a cell belongs to
\* at most one merged range of a workbook).
MergedRangeLists ==
    {q \in SeqsUpTo(SheetRanges, MaxRanges) :
        \A i, j \in DOMAIN q : i # j => ~RangesOverlap(q[i], q[j])}

InitSheet ==
    /\ pc = "loaded"
    /\ \E cells \in SheetGrids, merged \in MergedRangeLists :
          ws = Worksheet(plot_a, cells, merged)
    /\ loaded = ws
    /\ unmerged_once = Worksheet(<<>>, <<>>, <<>>)
    /\ IdleSanitise /\ IdleHeaders /\ IdleRows /\ IdleDb /\ IdleLater

CallUnmergeCells ==
    /\ pc = "loaded"
    /\ ws' = unmerge_cells(ws)
    /\ unmerged_once' = ws'
    /\ pc' = "unmerged"
    /\ UNCHANGED <<loaded, sanitiseVars, headerVars, rowVars, dbVars, laterVars>>

\* a second call on the worksheet the first call returned
CallUnmergeCellsAgain ==
    /\ pc = "unmerged"
    /\ ws' = unmerge_cells(ws)
    /\ pc' = "unmerged_twice"
    /\ UNCHANGED <<loaded, unmerged_once, sanitiseVars, headerVars, rowVars, dbVars, laterVars>>

NextSheet == CallUnmergeCells \/ CallUnmergeCellsAgain

SpecSheet == InitSheet /\ [][NextSheet]_vars

InitSanitise ==
    /\ pc = "sanitise"
    /\ text \in Texts
    /\ fallback_prefix \in FallbackPrefixes
    /\ identifier = NoOutcome
    /\ resanitised = NoOutcome
    /\ IdleHeaders /\ IdleRows /\ IdleSheet /\ IdleDb /\ IdleLater

CallSanitise ==
    /\ pc = "sanitise"
    /\ identifier' = sanitise_outcome(text, fallback_prefix)
    /\ pc' = "sanitised"
    /\ UNCHANGED <<text, fallback_prefix, resanitised, headerVars, rowVars, sheetVars, dbVars,
                   laterVars>>

\* a second call, on the identifier the first call returned
CallSanitiseAgain ==
    /\ pc = "sanitised"
    /\ identifier.exc = "none"
    /\ resanitised' = sanitise_outcome(identifier.val, fallback_prefix)
    /\ pc' = "resanitised"
    /\ UNCHANGED <<text, fallback_prefix, identifier, headerVars, rowVars, sheetVars, dbVars,
                   laterVars>>

NextSanitise == CallSanitise \/ CallSanitiseAgain

SpecSanitise == InitSanitise /\ [][NextSanitise]_vars

InitHeaders ==
    /\ pc = "build_headers"
    /\ raw_headers \in SeqsUpTo(RawHeaderPool, MaxHeaders)
    /\ fallback_prefix = column
    /\ text = <<>>
    /\ identifier = NoOutcome
    /\ resanitised = NoOutcome
    /\ headers = <<>>
    /\ IdleRows /\ IdleSheet /\ IdleDb /\ IdleLater

CallBuildHeaders ==
    /\ pc = "build_headers"
    /\ headers' = build_headers(raw_headers, fallback_prefix)
    /\ pc' = "headers_built"
    /\ UNCHANGED <<text, fallback_prefix, identifier, resanitised, raw_headers, rowVars, sheetVars,
                   dbVars, laterVars>>

NextHeaders == CallBuildHeaders

SpecHeaders == InitHeaders /\ [][NextHeaders]_vars

-----------------------------------------------------------------------------
(* sanitise_identifier and detect_header_index, every argument             *)

InitTotal == InitSanitise \/ InitRows

NextTotal == CallSanitise \/ CallDetectHeaderIndex

SpecTotal == InitTotal /\ [][NextTotal]_vars

-----------------------------------------------------------------------------
(* build_table_name on its own                                             *)

RECURSIVE Repeat(_, _)
Repeat(c, n) == IF n = 0 THEN <<>> ELSE <<c>> \o Repeat(c, n - 1)

\* The characters of a file stem or a sheet name: an upper-case letter, a
\* digit and a space.
NameAlphabet == {"A", "2", " "}

MaxNameLen == 2

\* File stems about as long as the limit of line 165.
LongStems == {Repeat("a", 60), Repeat("a", 61), Repeat("a", 62), Repeat("9", 62)}

FileStems == StringsUpTo(NameAlphabet, MaxNameLen) \cup LongStems \cup {survey_xlsx.stem}
SheetNames == StringsUpTo(NameAlphabet, MaxNameLen) \cup {plot_a}

InitName ==
    /\ pc = "build_table_name"
    /\ name_stem \in FileStems
    /\ name_sheet \in SheetNames
    /\ built_name = <<>>
    /\ IdleSanitise /\ IdleHeaders /\ IdleRows /\ IdleSheet /\ IdleDb /\ IdleMain
    /\ IdleImport /\ IdleWizard

CallBuildTableName ==
    /\ pc = "build_table_name"
    /\ built_name' = build_table_name(name_stem, name_sheet)
    /\ pc' = "table_named"
    /\ UNCHANGED <<name_stem, name_sheet, sanitiseVars, headerVars, rowVars, sheetVars, dbVars,
                   mainVars, importVars, wizardVars>>

NextName == CallBuildTableName

SpecName == InitName /\ [][NextName]_vars

-----------------------------------------------------------------------------
(* write_payloads_to_db                                                    *)

a_ == StrCell(<<"a">>)
b_ == StrCell(<<"b">>)
other_xlsx == SourceFile(<<"o", "t", "h", "e", "r">>, <<".", "x", "l", "s", "x">>)

\* The worksheets the payloads of a batch come from, each with its file and
\* its header row: two worksheets of survey.xlsx whose titles sanitise to
\* the same table name (the second with fewer columns and rows), and a
\* worksheet of another file.
SourceSheets ==
    { [file |-> survey_xlsx, header |-> <<a_, a_, None>>,
       sheet |-> Worksheet(plot_a,
                           <<<<None, None, None>>, <<a_, a_, None>>,
                             <<IntCell(1), b_, None>>, <<IntCell(2), None, b_>>>>, <<>>)],
      [file |-> survey_xlsx, header |-> <<b_, IntCell(2)>>,
       sheet |-> Worksheet(<<"p", "l", "o", "t", "-", "a">>,
                           <<<<b_, IntCell(2)>>, <<IntCell(3), IntCell(4)>>>>, <<>>)],
      [file |-> other_xlsx, header |-> <<a_>>,
       sheet |-> Worksheet(<<"S">>, <<<<a_>>, <<IntCell(5)>>>>, <<>>)] }

DefaultMaxHeaderScan == 10

PayloadOf(source) == worksheet_to_dataframe(source.file, source.sheet, DefaultMaxHeaderScan)

PayloadPool == {PayloadOf(source) : source \in SourceSheets}

MaxBatch == 2

Batches == SeqsUpTo(PayloadPool, MaxBatch) \ {<<>>}

InitDb ==
    /\ pc = "idle"
    /\ db = EmptyDatabase
    /\ conn = NoConnection
    /\ payloads = <<>>
    /\ payload_no = 0
    /\ exc = "none"
    /\ before = EmptyDatabase
    /\ opens = 0
    /\ closes = 0
    /\ IdleSanitise /\ IdleHeaders /\ IdleRows /\ IdleSheet /\ IdleLater

otherVars == <<sanitiseVars, headerVars, rowVars, sheetVars, laterVars>>

\* the exception leaves the function at once, as without try/finally
Raise_past_finally(e) == exc' = e /\ pc' = "returned"

\* the exception leaves the try block: control goes to the finally clause
Raise(e) == exc' = e /\ pc' = "finally"

\* line 201: a call of write_payloads_to_db opens the connection
Connect ==
    /\ pc \in {"idle", "returned"}
    /\ \E batch \in Batches : payloads' = batch
    /\ conn' = Connection("open", db, FALSE)
    /\ before' = db
    /\ payload_no' = 1
    /\ exc' = "none"
    /\ opens' = 1
    /\ closes' = 0
    /\ pc' = "schema"
    /\ UNCHANGED <<db, otherVars>>

\* lines 203-222: CREATE TABLE IF NOT EXISTS, twice
CreateSchema ==
    /\ pc = "schema"
    /\ \/ pc' = (IF payloads = <<>> THEN "commit" ELSE "to_sql") /\ UNCHANGED exc
       \/ Raise("OperationalError")
    /\ UNCHANGED <<db, conn, payloads, payload_no, before, opens, closes, otherVars>>

\* line 225.  pandas writes through the connection in two transactions of
\* its own, each ended by con.commit(), or by con.rollback() when it raises:
\* (1) DROP TABLE of an existing table of the name and CREATE TABLE,
\* (2) INSERT of the rows.  A commit makes everything pending on the
\* connection durable, the metadata rows of the earlier payloads included.
\* DROP and CREATE open no transaction: outside one they take effect at once.
ToSql ==
    /\ pc = "to_sql"
    /\ LET p == payloads[payload_no]
           written == Database(to_sql_replace(conn.view.tables, p),
                               conn.view.table_metadata, conn.view.column_metadata)
           created == Database(put_table(conn.view.tables, p.table_name,
                                         DataFrame(p.dataframe.columns, <<>>)),
                               conn.view.table_metadata, conn.view.column_metadata)
           dropped == Database(drop_table(db.tables, p.table_name),
                               db.table_metadata, db.column_metadata)
       IN  \/ \* both transactions commit
              /\ db' = written
              /\ conn' = Connection("open", written, FALSE)
              /\ pc' = "table_metadata"
              /\ UNCHANGED exc
           \/ \* CREATE TABLE raises: rollback
              /\ db' = IF conn.in_transaction THEN db ELSE dropped
              /\ conn' = Connection("open", db', FALSE)
              /\ Raise("OperationalError")
           \/ \* the INSERT raises after the table was created and committed
              /\ db' = created
              /\ conn' = Connection("open", created, FALSE)
              /\ Raise("InterfaceError")
    /\ UNCHANGED <<payloads, payload_no, before, opens, closes, otherVars>>

\* lines 226-229: the REPLACE opens a transaction when none is open
ReplaceTableMetadata ==
    /\ pc = "table_metadata"
    /\ \/ /\ conn' = Connection("open",
                         Database(conn.view.tables,
                                  replace_table_metadata(
                                      conn.view.table_metadata,
                                      table_metadata_row(payloads[payload_no])),
                                  conn.view.column_metadata),
                         TRUE)
          /\ pc' = "column_metadata"
          /\ UNCHANGED exc
       \/ Raise("OperationalError") /\ UNCHANGED conn
    /\ UNCHANGED <<db, payloads, payload_no, before, opens, closes, otherVars>>

\* lines 230-241, and the loop's step to the next payload or to the commit
ReplaceColumnMetadata ==
    /\ pc = "column_metadata"
    /\ \/ /\ conn' = Connection("open",
                         Database(conn.view.tables,
                                  conn.view.table_metadata,
                                  executemany_column_metadata(
                                      conn.view.column_metadata, payloads[payload_no], 0)),
                         TRUE)
          /\ payload_no' = payload_no + 1
          /\ pc' = IF payload_no + 1 > Len(payloads) THEN "commit" ELSE "to_sql"
          /\ UNCHANGED exc
       \/ Raise("OperationalError") /\ UNCHANGED <<conn, payload_no>>
    /\ UNCHANGED <<db, payloads, before, opens, closes, otherVars>>

\* line 242
Commit ==
    /\ pc = "commit"
    /\ \/ /\ db' = conn.view
          /\ conn' = Connection("open", conn.view, FALSE)
          /\ pc' = "finally"
          /\ UNCHANGED exc
       \/ Raise("OperationalError") /\ UNCHANGED <<db, conn>>
    /\ UNCHANGED <<payloads, payload_no, before, opens, closes, otherVars>>

\* lines 243-244: close() discards what the connection has not committed;
\* the call then returns, or the exception propagates to the caller
Close ==
    /\ pc = "finally"
    /\ conn' = Connection("closed", db, FALSE)
    /\ closes' = closes + 1
    /\ pc' = "returned"
    /\ UNCHANGED <<db, payloads, payload_no, exc, before, opens, otherVars>>

NextDb ==
    \/ Connect
    \/ CreateSchema
    \/ ToSql
    \/ ReplaceTableMetadata
    \/ ReplaceColumnMetadata
    \/ Commit
    \/ Close

SpecDb == InitDb /\ [][NextDb]_vars

-----------------------------------------------------------------------------
(* main: resolve_files, process_workbook and write_payloads_to_db          *)

xlsx == <<".", "x", "l", "s", "x">>

\* A workbook file: its path, whether load_workbook can read it, and its
\* worksheets in workbook.sheetnames order.
Workbook(path, readable, sheets) ==
    [path |-> path, readable |-> readable, sheets |-> sheets]

\* 'Plot A': a blank row, a header row with a repeated and a digit-leading
\* header, and one data row as dense as the header row
farmer_sheet ==
    Worksheet(plot_a,
              << <<None, None, None>>,
                 <<StrCell(<<"F", "a", "r", "m", "e", "r", " ", "N", "a", "m", "e">>), StrCell(<<"F", "a", "r", "m", "e", "r", " ", "N", "a", "m", "e">>), StrCell(<<"2", "0", "2", "0">>)>>,
                 <<StrCell(<<"J", "a", "n", "e">>), StrCell(<<"J", "a", "n", "e", " ", "D", "o", "e">>), IntCell(5)>> >>,
              <<>>)

\* a worksheet of blank rows, one with a header row only, and an empty one
notes_sheet == Worksheet(<<"N", "o", "t", "e", "s">>, << <<None, StrCell(<<" ">>)>>, <<None, None>> >>, <<>>)
head_sheet == Worksheet(<<"H", "e", "a", "d">>, << <<a_, b_>> >>, <<>>)
empty_sheet == Worksheet(<<"E", "m", "p", "t", "y">>, <<>>, <<>>)

totals_sheet ==
    Worksheet(<<"T", "o", "t", "a", "l", "s">>, << <<a_, b_>>, <<IntCell(1), None>>, <<IntCell(2), b_>> >>, <<>>)

\* two worksheets of other.xlsx whose titles sanitise to one table name
upper_sheet == Worksheet(<<"S">>, << <<a_>>, <<IntCell(5)>> >>, <<>>)
lower_sheet == Worksheet(<<"s">>, << <<b_, a_>>, <<IntCell(3), IntCell(4)>> >>, <<>>)

blank_xlsx == SourceFile(<<"b", "l", "a", "n", "k">>, xlsx)
broken_xlsx == SourceFile(<<"b", "r", "o", "k", "e", "n">>, xlsx)
missing_xlsx == SourceFile(<<"m", "i", "s", "s", "i", "n", "g">>, xlsx)

\* The working directory, in the order sorted() gives its paths: a workbook
\* without tabular data, a file that is no workbook, and two workbooks with
\* data.  missing.xlsx is not in it.
Directory ==
    << Workbook(blank_xlsx, TRUE, <<empty_sheet, head_sheet>>),
       Workbook(broken_xlsx, FALSE, <<>>),
       Workbook(other_xlsx, TRUE, <<upper_sheet, lower_sheet>>),
       Workbook(survey_xlsx, TRUE, <<farmer_sheet, notes_sheet, totals_sheet>>) >>

\* line 76: any(ch in str(path) for ch in "*?[]")
is_pattern(path) == \E i \in 1..Len(path_str(path)) : path_str(path)[i] \in {"*", "?", "[", "]"}

RECURSIVE fnmatch(_, _)
\* the match of a file name against a pattern of literal characters, ? and *
fnmatch(name, pattern) ==
    IF pattern = <<>> THEN name = <<>>
    ELSE IF Head(pattern) = "*"
         THEN fnmatch(name, Tail(pattern)) \/ (name # <<>> /\ fnmatch(Tail(name), pattern))
    ELSE IF Head(pattern) = "?"
         THEN name # <<>> /\ fnmatch(Tail(name), Tail(pattern))
    ELSE name # <<>> /\ Head(name) = Head(pattern) /\ fnmatch(Tail(name), Tail(pattern))

\* line 77: sorted(Path().glob(str(path)))
sorted_glob(pattern) ==
    LET matching == SelectSeq(Directory, LAMBDA wb : fnmatch(path_str(wb.path), path_str(pattern)))
    IN  [i \in 1..Len(matching) |-> matching[i].path]

\* line 78: path.exists()
path_exists(path) == \E i \in 1..Len(Directory) : Directory[i].path = path

RECURSIVE resolve_loop_skip_missing(_, _, _)
\* the loop of resolve_files passing over a literal path that does not exist
resolve_loop_skip_missing(paths, i, resolved) ==
    IF i > Len(paths) THEN Returned(resolved)
    ELSE IF is_pattern(paths[i])
         THEN resolve_loop_skip_missing(paths, i + 1, resolved \o sorted_glob(paths[i]))
    ELSE IF path_exists(paths[i])
         THEN resolve_loop_skip_missing(paths, i + 1, Append(resolved, paths[i]))
    ELSE resolve_loop_skip_missing(paths, i + 1, resolved)

resolve_files_skip_missing(paths) == resolve_loop_skip_missing(paths, 1, <<>>)

RECURSIVE resolve_loop(_, _, _)
\* lines 75-81
resolve_loop(paths, i, resolved) ==
    IF i > Len(paths) THEN Returned(resolved)
    ELSE IF is_pattern(paths[i])
         THEN resolve_loop(paths, i + 1, resolved \o sorted_glob(paths[i]))
    ELSE IF path_exists(paths[i])
         THEN resolve_loop(paths, i + 1, Append(resolved, paths[i]))
    ELSE Raised("FileNotFoundError")

\* lines 73-82
resolve_files(paths) == resolve_loop(paths, 1, <<>>)

\* line 248: the workbook stored at an existing path
load_workbook(path) == CHOOSE wb \in Range(Directory) : wb.path = path

RECURSIVE sheets_until_none(_, _, _, _)
\* the loop of process_workbook leaving at the first worksheet without a payload
sheets_until_none(path, sheets, i, max_header_scan) ==
    IF i > Len(sheets) THEN <<>>
    ELSE LET p == worksheet_to_dataframe(path, sheets[i], max_header_scan)
         IN  IF p # NonePayload
             THEN <<p>> \o sheets_until_none(path, sheets, i + 1, max_header_scan)
             ELSE <<>>

RECURSIVE sheets_loop(_, _, _, _)
\* lines 250-254
sheets_loop(path, sheets, i, max_header_scan) ==
    IF i > Len(sheets) THEN <<>>
    ELSE LET p == worksheet_to_dataframe(path, sheets[i], max_header_scan)
         IN  IF p # NonePayload
             THEN <<p>> \o sheets_loop(path, sheets, i + 1, max_header_scan)
             ELSE sheets_loop(path, sheets, i + 1, max_header_scan)

\* process_workbook taking a file it cannot read for a workbook without sheets
process_workbook_unread(path, max_header_scan) ==
    IF ~load_workbook(path).readable THEN Returned(<<>>)
    ELSE Returned(sheets_loop(path, load_workbook(path).sheets, 1, max_header_scan))

\* lines 247-255; load_workbook raises on a file that is no workbook
process_workbook(path, max_header_scan) ==
    IF ~load_workbook(path).readable THEN Raised("InvalidFileException")
    ELSE Returned(sheets_loop(path, load_workbook(path).sheets, 1, max_header_scan))

\* lines 262 and 274: raise SystemExit(message)
SystemExit(message) == [exc |-> "SystemExit", val |-> message]

\* line 261: not excel_paths
no_files_matched(resolved) == resolved = <<>>

\* main going on to write whatever it collected
always_usable(collected) == FALSE

\* line 273: not all_payloads
no_usable_worksheets(collected) == collected = <<>>

\* The path arguments: the files of the directory, a path that does not
\* exist, and patterns matching one file, two files, every file and none.
PathArguments ==
    { survey_xlsx, other_xlsx, blank_xlsx, broken_xlsx, missing_xlsx,
      SourceFile(<<"s", "*">>, xlsx), SourceFile(<<"?", "?", "?", "?", "?">>, xlsx),
      SourceFile(<<"*">>, <<>>), SourceFile(<<"z", "*">>, xlsx) }

MaxArgs == 2

\* a database written by an earlier run: a table of the name 'Plot A' of
\* survey.xlsx gets, and another table
earlier_payload ==
    WorksheetPayload(<<"s", "u", "r", "v", "e", "y", "_", "p", "l", "o", "t", "_", "a">>, <<<<"o", "l", "d">>>>, DataFrame(<<<<"o", "l", "d">>>>, << <<IntCell(7)>> >>),
                     survey_xlsx, plot_a)

EarlierDatabase ==
    Database(to_sql_replace(put_table(EmptyTables, <<"l", "e", "g", "a", "c", "y">>, DataFrame(<<<<"o", "l", "d">>>>, <<>>)),
                            earlier_payload),
             replace_table_metadata({}, table_metadata_row(earlier_payload)),
             executemany_column_metadata({}, earlier_payload, 0))

InitMain ==
    /\ pc = "main"
    /\ excel_files \in SeqsUpTo(PathArguments, MaxArgs) \ {<<>>}
    /\ excel_paths = <<>>
    /\ path_no = 0
    /\ all_payloads = <<>>
    /\ opened = <<>>
    /\ termination = NoOutcome
    /\ db \in {EmptyDatabase, EarlierDatabase}
    /\ before = db
    /\ conn = NoConnection
    /\ payloads = <<>>
    /\ payload_no = 0
    /\ exc = "none"
    /\ opens = 0
    /\ closes = 0
    /\ IdleSanitise /\ IdleHeaders /\ IdleRows /\ IdleSheet /\ IdleName /\ IdleImport
    /\ IdleWizard

idleVars == <<sanitiseVars, headerVars, rowVars, sheetVars, nameVars, importVars, wizardVars>>

\* lines 259-262
ResolveFiles ==
    /\ pc = "main"
    /\ LET outcome == resolve_files(excel_files)
       IN  IF outcome.exc # "none"
           THEN /\ termination' = outcome
                /\ pc' = "exit"
                /\ UNCHANGED <<excel_paths, path_no>>
           ELSE /\ excel_paths' = outcome.val
                /\ IF no_files_matched(outcome.val)
                   THEN /\ termination' = SystemExit("No Excel files matched the provided arguments.")
                        /\ pc' = "exit"
                        /\ UNCHANGED path_no
                   ELSE /\ path_no' = 1
                        /\ pc' = "process"
                        /\ UNCHANGED termination
    /\ UNCHANGED <<excel_files, all_payloads, opened, dbVars, idleVars>>

\* lines 265-271: one turn of the loop over excel_paths
ProcessWorkbook ==
    /\ pc = "process"
    /\ LET path == excel_paths[path_no]
           outcome == process_workbook(path, DefaultMaxHeaderScan)
       IN  /\ opened' = Append(opened, path)
           /\ IF outcome.exc # "none"
              THEN /\ termination' = outcome
                   /\ pc' = "exit"
                   /\ UNCHANGED <<all_payloads, path_no>>
              ELSE /\ all_payloads' = all_payloads \o outcome.val
                   /\ path_no' = path_no + 1
                   /\ pc' = IF path_no + 1 > Len(excel_paths) THEN "collected" ELSE "process"
                   /\ UNCHANGED termination
    /\ UNCHANGED <<excel_files, excel_paths, dbVars, idleVars>>

\* lines 273-275 and 201: the exit without payloads, or the call of
\* write_payloads_to_db, which opens the connection
WritePayloads ==
    /\ pc = "collected"
    /\ IF no_usable_worksheets(all_payloads)
       THEN /\ termination' = SystemExit("No usable worksheets found across provided files.")
            /\ pc' = "exit"
            /\ UNCHANGED dbVars
       ELSE /\ payloads' = all_payloads
            /\ conn' = Connection("open", db, FALSE)
            /\ before' = db
            /\ payload_no' = 1
            /\ exc' = "none"
            /\ opens' = 1
            /\ closes' = 0
            /\ pc' = "schema"
            /\ UNCHANGED <<db, termination>>
    /\ UNCHANGED <<excel_files, excel_paths, path_no, all_payloads, opened, idleVars>>

\* lines 275-277: write_payloads_to_db returns or raises, and main with it
MainReturns ==
    /\ pc = "returned"
    /\ termination' = IF exc = "none" THEN Returned(<<>>) ELSE Raised(exc)
    /\ pc' = "exit"
    /\ UNCHANGED <<excel_files, excel_paths, path_no, all_payloads, opened, dbVars, idleVars>>

NextMain ==
    \/ ResolveFiles
    \/ ProcessWorkbook
    \/ WritePayloads
    \/ CreateSchema
    \/ ToSql
    \/ ReplaceTableMetadata
    \/ ReplaceColumnMetadata
    \/ Commit
    \/ Close
    \/ MainReturns

SpecMain == InitMain /\ [][NextMain]_vars

-----------------------------------------------------------------------------
(* wizard_tasks._do_import                                                 *)

\* The primary key of an object: its Python type and its text.
PkValue(t, v) == [t |-> t, v |-> v]
NoPk == PkValue("NoneType", "")

\* the texts uuid.UUID() accepts
UuidTexts == {"6f1c2d9e-0b7a-4c55-9c7e-2a4e8d3b1f00"}

\* An instance of a model: the model's name, the class of its primary key
\* field and the value of the key.
ModelObject(model, pk_field, pk) ==
    [kind |-> "model", model |-> model, pk_field |-> pk_field, pk |-> pk]

\* no object (None), and a result that is no model instance
NoObject == [kind |-> "none", model |-> "", pk_field |-> "", pk |-> NoPk]
OtherObject == [kind |-> "other", model |-> "", pk_field |-> "", pk |-> NoPk]

farmer == ModelObject("farmer", "UUIDField", PkValue("UUID", "6f1c2d9e-0b7a-4c55-9c7e-2a4e8d3b1f00"))
token == ModelObject("token", "CharField", PkValue("UUID", "6f1c2d9e-0b7a-4c55-9c7e-2a4e8d3b1f00"))
voucher == ModelObject("voucher", "CharField", PkValue("str", "6f1c2d9e-0b7a-4c55-9c7e-2a4e8d3b1f00"))
village == ModelObject("village", "CharField", PkValue("str", "V-17"))
plot == ModelObject("plot", "AutoField", PkValue("int", "7"))

\* What import_row makes of a data row: the pair (obj, error), an object and
\* no error, or no object and an error.
RowResult(obj, error) == [obj |-> obj, error |-> error]

RowResults ==
    { RowResult(o, "none") : o \in {farmer, token, voucher, village, plot, OtherObject} }
        \cup { RowResult(NoObject, "error") }

MaxImportRows == 3

\* lines 41-49
rownum(i, is_tabular, first_row) == IF is_tabular THEN i + first_row ELSE i

\* line 68
skipped_entry(i, is_tabular, first_row, error) ==
    [row |-> rownum(i, is_tabular, first_row) + 1, reason |-> error]

\* lines 75-80: the record as constructed, no object attached
import_record(i, is_tabular, first_row, success, fail_reason) ==
    [row |-> rownum(i, is_tabular, first_row), success |-> success,
     fail_reason |-> fail_reason,
     content_type |-> "none", object_id |-> NoPk, content_object |-> NoObject]

\* lines 110-129
has_uuid_primary_key(obj) ==
    IF obj.pk_field = "UUIDField" THEN TRUE
    ELSE IF obj.pk.t = "UUID" THEN TRUE
    ELSE IF obj.pk.t = "str" THEN obj.pk.v \in UuidTexts
    ELSE FALSE

\* record.content_object = obj: the generic foreign key stores the object's
\* content type and its key next to the object
set_content_object(record, obj) ==
    [record EXCEPT !.content_type = obj.model, !.object_id = obj.pk, !.content_object = obj]

\* every model instance attached through content_object
set_record_object_by_key(record, obj) ==
    IF obj.kind # "model" THEN record ELSE set_content_object(record, obj)

\* lines 95-107
set_record_object(record, obj) ==
    IF obj.kind # "model" THEN record
    ELSE IF has_uuid_primary_key(obj)
    THEN [record EXCEPT !.content_type = obj.model, !.object_id = NoPk]
    ELSE set_content_object(record, obj)

\* line 85
import_result(current, total, skipped_rows) ==
    [current |-> current, total |-> total, skipped |-> skipped_rows]

\* every record counted, successful or not
count_all(records) == Len(records)

\* line 87: run.record_set.filter(success=True).count()
count_successes(records) == Len(SelectSeq(records, LAMBDA r : r.success))

InitImport ==
    /\ pc = "do_import"
    /\ table_rows \in SeqsUpTo(RowResults, MaxImportRows)
    /\ tabular \in BOOLEAN
    /\ start_row \in {0, 1}
    /\ i_bound = FALSE
    /\ loop_i = 0
    /\ skipped = <<>>
    /\ record_set = <<>>
    /\ log_events = <<>>
    /\ import_status = NoOutcome
    /\ record_count = 0
    /\ IdleSanitise /\ IdleHeaders /\ IdleRows /\ IdleSheet /\ IdleDb /\ IdleName /\ IdleMain
    /\ IdleWizard

importIdleVars ==
    <<sanitiseVars, headerVars, rowVars, sheetVars, dbVars, nameVars, mainVars, wizardVars>>

\* lines 34-39
BeginImport ==
    /\ pc = "do_import"
    /\ log_events' = Append(log_events, "do_import")
    /\ pc' = "import_rows"
    /\ UNCHANGED <<table_rows, tabular, start_row, i_bound, loop_i, skipped, record_set,
                   import_status, record_count, importIdleVars>>

\* lines 51-82: one turn of the loop over enumerate(get_rows(run)); the
\* turn binds i
ImportRow ==
    /\ pc = "import_rows"
    /\ LET i == IF i_bound THEN loop_i + 1 ELSE 0
       IN  /\ i < Len(table_rows)
           /\ i_bound' = TRUE
           /\ loop_i' = i
           /\ LET obj == table_rows[i + 1].obj
                  error == table_rows[i + 1].error
              IN  IF error # "none"
                  THEN /\ skipped' = Append(skipped, skipped_entry(i, tabular, start_row, error))
                       /\ record_set' =
                              Append(record_set,
                                     set_record_object(
                                         import_record(i, tabular, start_row, FALSE, error), obj))
                  ELSE /\ skipped' = skipped
                       /\ record_set' =
                              Append(record_set,
                                     set_record_object(
                                         import_record(i, tabular, start_row, TRUE, "none"), obj))
    /\ UNCHANGED <<pc, table_rows, tabular, start_row, log_events, import_status, record_count,
                   importIdleVars>>

\* lines 85-92, after the last turn; i + 1 with i not bound raises
\* UnboundLocalError
CompleteImport ==
    /\ pc = "import_rows"
    /\ (IF i_bound THEN loop_i + 1 ELSE 0) >= Len(table_rows)
    /\ IF i_bound
       THEN /\ log_events' = Append(log_events, "import_complete")
            /\ record_count' = count_successes(record_set)
            /\ import_status' =
                   Returned(import_result(loop_i + 1, Len(table_rows), skipped))
       ELSE /\ import_status' = Raised("UnboundLocalError")
            /\ UNCHANGED <<log_events, record_count>>
    /\ pc' = "import_ended"
    /\ UNCHANGED <<table_rows, tabular, start_row, i_bound, loop_i, skipped, record_set,
                   importIdleVars>>

NextImport == BeginImport \/ ImportRow \/ CompleteImport

SpecImport == InitImport /\ [][NextImport]_vars

-----------------------------------------------------------------------------
(* serializers.FarmerByNameField.to_internal_value                         *)

\* registration_id is nullable: the NULL of a row without one
NullId == <<"NULL">>

\* a row of the farmers table
Farmer(farmer_id, name, registration_id) ==
    [farmer_id |-> farmer_id, name |-> name, registration_id |-> registration_id]

\* a Farmer instance handed in as the value
FarmerInstance(farmer_id) == [k |-> "farmer", s |-> <<>>, n |-> farmer_id]

jo == <<"J", "o">>
ra == <<"R", "a">>
f1 == <<"F", "1">>
f9 == <<"F", "9">>

FarmerNames == {jo, ra}

\* no registration id (NULL or ''), an ordinary id, and an id that reads
\* like the name of a farmer
RegistrationIds == {NullId, <<>>, f1, jo}

MaxFarmers == 3

\* registration_id is unique=True: no two rows share a non-NULL value
UniqueRegistrationIds(tbl) ==
    \A i, j \in DOMAIN tbl :
        (i # j /\ tbl[i].registration_id # NullId) =>
            tbl[i].registration_id # tbl[j].registration_id

FarmerTables ==
    { tbl \in { [i \in DOMAIN t |-> Farmer(i, t[i][1], t[i][2])] :
                      t \in SeqsUpTo(FarmerNames \X RegistrationIds, MaxFarmers) } :
          UniqueRegistrationIds(tbl) }

FieldValues ==
    { None, StrCell(<<>>), StrCell(<<" ">>), StrCell(f1), StrCell(<<" ">> \o f1 \o <<" ">>),
      StrCell(jo), StrCell(ra), StrCell(f9), IntCell(5), FarmerInstance(1) }

\* lines 37-38
stripped_value(value) ==
    IF value.k = "str" THEN StrCell(str_strip(value.s, SpaceChars)) ELSE value

\* queryset.get(...) / .count() over the rows a filter keeps
get_or_fail(matches) ==
    IF Len(matches) = 1 THEN Returned(<<matches[1].farmer_id>>)
    ELSE IF Len(matches) > 1 THEN Raised("multiple")
    ELSE Raised("DoesNotExist")

\* line 52
by_registration_id(queryset, v) ==
    SelectSeq(queryset, LAMBDA row : row.registration_id = v)

\* lines 58-60
by_name_without_id(queryset, v) ==
    SelectSeq(queryset, LAMBDA row : row.name = v /\ row.registration_id \in {NullId, <<>>})

\* the lookup by name tried first, the registration id second
to_internal_value_name_first(value, queryset) ==
    IF value = None THEN Raised("required")
    ELSE LET v == stripped_value(value)
         IN  IF v = StrCell(<<>>) THEN Raised("blank")
             ELSE IF v.k = "farmer" THEN Returned(<<v.n>>)
             ELSE IF v.k # "str" THEN Raised("invalid")
             ELSE LET named == get_or_fail(by_name_without_id(queryset, v.s))
                  IN  IF named.exc # "DoesNotExist" THEN named
                      ELSE LET found == get_or_fail(by_registration_id(queryset, v.s))
                           IN  IF found.exc = "DoesNotExist" THEN Raised("name_missing")
                               ELSE found

\* lines 33-68; self.fail raises a ValidationError with the message of the key
to_internal_value(value, queryset) ==
    IF value = None THEN Raised("required")
    ELSE LET v == stripped_value(value)
         IN  IF v = StrCell(<<>>) THEN Raised("blank")
             ELSE IF v.k = "farmer" THEN Returned(<<v.n>>)
             ELSE IF v.k # "str" THEN Raised("invalid")
             ELSE LET found == get_or_fail(by_registration_id(queryset, v.s))
                  IN  IF found.exc # "DoesNotExist" THEN found
                      ELSE LET named == get_or_fail(by_name_without_id(queryset, v.s))
                           IN  IF named.exc = "DoesNotExist" THEN Raised("name_missing")
                               ELSE named

InitFarmer ==
    /\ pc = "to_internal_value"
    /\ farmers \in FarmerTables
    /\ field_value \in FieldValues
    /\ farmer_found = NoOutcome
    /\ IdleSanitise /\ IdleHeaders /\ IdleRows /\ IdleSheet /\ IdleDb
    /\ IdleName /\ IdleMain /\ IdleImport /\ IdleUpload

CallToInternalValue ==
    /\ pc = "to_internal_value"
    /\ farmer_found' = to_internal_value(field_value, farmers)
    /\ pc' = "farmer_resolved"
    /\ UNCHANGED <<farmers, field_value, uploadVars, sanitiseVars, headerVars, rowVars, sheetVars,
                   dbVars, nameVars, mainVars, importVars>>

NextFarmer == CallToInternalValue

SpecFarmer == InitFarmer /\ [][NextFarmer]_vars

-----------------------------------------------------------------------------
(* views.FileUploadForm and PMKSYImportWizard._handle_upload               *)

spreadsheetml_type ==
    <<"a", "p", "p", "l", "i", "c", "a", "t", "i", "o", "n", "/", "v", "n", "d", ".", "o",
      "p", "e", "n", "x", "m", "l", "f", "o", "r", "m", "a", "t", "s", "-", "o", "f", "f",
      "i", "c", "e", "d", "o", "c", "u", "m", "e", "n", "t", ".", "s", "p", "r", "e", "a",
      "d", "s", "h", "e", "e", "t", "m", "l", ".", "s", "h", "e", "e", "t">>

ms_excel_type ==
    <<"a", "p", "p", "l", "i", "c", "a", "t", "i", "o", "n", "/", "v", "n", "d", ".", "m",
      "s", "-", "e", "x", "c", "e", "l">>

octet_stream_type ==
    <<"a", "p", "p", "l", "i", "c", "a", "t", "i", "o", "n", "/", "o", "c", "t", "e", "t",
      "-", "s", "t", "r", "e", "a", "m">>

csv_type ==
    <<"t", "e", "x", "t", "/", "c", "s", "v">>

\* An uploaded file: its name, the content type the client sent, its size
\* class (0 for an empty file) and the sheet names load_workbook finds in it
\* (none when openpyxl cannot read it).
UploadedFile(name, content_type, size, sheetnames) ==
    [present |-> TRUE, name |-> name, content_type |-> content_type, size |-> size,
     sheetnames |-> sheetnames]

\* request.FILES.get("source_file") without a file: None
NoFile ==
    [present |-> FALSE, name |-> <<>>, content_type |-> <<>>, size |-> 0, sheetnames |-> <<>>]

sheet_one == <<"O", "n", "e">>
sheet_two == <<"T", "w", "o">>
sheet_two_padded == <<"T", "w", "o", " ">>

survey_upload ==
    UploadedFile(<<"s", ".", "x", "l", "s", "x">>, spreadsheetml_type, 1,
                 <<sheet_one, sheet_two_padded>>)
upper_upload ==
    UploadedFile(<<"S", ".", "X", "L", "S", "X">>, octet_stream_type, 1, <<sheet_one, sheet_two>>)
legacy_upload == UploadedFile(<<"o", ".", "x", "l", "s">>, ms_excel_type, 1, <<>>)
typed_upload == UploadedFile(<<"b", "o", "o", "k">>, spreadsheetml_type, 1, <<sheet_one>>)
farmers_upload == UploadedFile(<<"f", ".", "c", "s", "v">>, csv_type, 1, <<>>)
empty_upload == UploadedFile(<<"e", ".", "x", "l", "s", "x">>, spreadsheetml_type, 0, <<>>)

UploadPool ==
    {NoFile, survey_upload, upper_upload, legacy_upload, typed_upload, farmers_upload,
     empty_upload}

\* request.POST without the key sheet_name
NotPosted == <<"not posted">>

SheetPosts == {NotPosted, <<>>, <<" ">>, sheet_one, sheet_two, sheet_two_padded}

\* a key that cleaned_data does not hold
Missing == <<"missing">>

\* w in s
str_contains(s, w) == \E i \in 1..(Len(s) - Len(w) + 1) : SubSeq(s, i, i + Len(w) - 1) = w

\* Path(filename).suffix
path_suffix(name) ==
    LET dots == {i \in 2..Len(name) : name[i] = "."}
    IN  IF dots = {} THEN <<>>
        ELSE LET last == CHOOSE i \in dots : \A j \in dots : j <= i
             IN  SubSeq(name, last, Len(name))

WORKBOOK_EXTENSIONS == {<<".", "x", "l", "s">>, <<".", "x", "l", "s", "x">>}

\* lines 121-132
is_workbook(uploaded_file) ==
    LET normalized_type == str_lower(uploaded_file.content_type)
    IN  IF \/ str_contains(normalized_type, <<"s", "p", "r", "e", "a", "d", "s", "h", "e", "e", "t">>)
           \/ str_contains(normalized_type, <<"e", "x", "c", "e", "l">>)
        THEN TRUE
        ELSE str_lower(path_suffix(uploaded_file.name)) \in WORKBOOK_EXTENSIONS

\* lines 291-305: the choices the handler gives the sheet_name field
sheet_choices(uploaded_file, raw_sheet) ==
    LET sheet_names == IF uploaded_file.present /\ uploaded_file.name # <<>>
                          /\ is_workbook(uploaded_file)
                       THEN uploaded_file.sheetnames ELSE <<>>
    IN  IF sheet_names # <<>> THEN sheet_names
        ELSE IF raw_sheet # NotPosted /\ raw_sheet # <<>> THEN <<raw_sheet>>
        ELSE <<>>

\* forms.FileField.clean on source_file: the error code, or "none"
source_file_error(uploaded_file) ==
    IF ~uploaded_file.present THEN "required"
    ELSE IF uploaded_file.name = <<>> THEN "invalid"
    ELSE IF uploaded_file.size = 0 THEN "empty"
    ELSE "none"

\* forms.ChoiceField.clean on sheet_name (required=False): the error code,
\* or "none"
sheet_name_error(raw_sheet, choices) ==
    IF raw_sheet \in {NotPosted, <<>>} THEN "none"
    ELSE IF raw_sheet \in Range(choices) THEN "none"
    ELSE "invalid_choice"

\* lines 101-105
clean_sheet_name(sheet_name) == str_strip(sheet_name, SpaceChars)

\* the fields cleaned in turn: a field with an error has no cleaned value
cleaned_fields(uploaded_file, raw_sheet, choices) ==
    [source_file |-> IF source_file_error(uploaded_file) = "none" THEN uploaded_file ELSE NoFile,
     sheet_name |-> IF sheet_name_error(raw_sheet, choices) # "none" THEN Missing
                    ELSE IF raw_sheet = NotPosted THEN <<>>
                    ELSE clean_sheet_name(raw_sheet)]

\* lines 107-119: whether clean() adds the sheet_name error
sheet_required(cleaned_data) ==
    /\ cleaned_data.source_file.present
    /\ is_workbook(cleaned_data.source_file)
    /\ cleaned_data.sheet_name \in {Missing, <<>>}

\* lines 291-307: the form bound to the request, after is_valid()
bound_form(uploaded_file, raw_sheet) ==
    LET choices == sheet_choices(uploaded_file, raw_sheet)
        cleaned == cleaned_fields(uploaded_file, raw_sheet, choices)
        file_errors == IF source_file_error(uploaded_file) = "none" THEN <<>>
                       ELSE <<source_file_error(uploaded_file)>>
        sheet_errors == IF sheet_name_error(raw_sheet, choices) = "none" THEN <<>>
                        ELSE <<sheet_name_error(raw_sheet, choices)>>
    IN  [choices |-> choices,
         errors |-> [source_file |-> file_errors,
                     sheet_name |-> IF sheet_required(cleaned)
                                    THEN Append(sheet_errors, "sheet_required")
                                    ELSE sheet_errors],
         cleaned_data |-> IF sheet_required(cleaned)
                          THEN [cleaned EXCEPT !.sheet_name = Missing]
                          ELSE cleaned]

is_valid(f) == f.errors.source_file = <<>> /\ f.errors.sheet_name = <<>>

\* The rows of FileSource, Run and ImportRunMetadata.
EmptyWizardDb == [file_sources |-> <<>>, runs |-> <<>>, metadata |-> <<>>]

EarlierWizardDb ==
    [file_sources |-> <<[pk |-> 1, file |-> survey_upload.name]>>,
     runs |-> <<[pk |-> 1, file_source |-> 1]>>,
     metadata |-> <<[run |-> 1, sheet_name |-> sheet_one]>>]

\* ImportRunMetadata.objects.update_or_create(run=run, defaults={...})
update_or_create(metadata, run, sheet_name) ==
    IF \E i \in DOMAIN metadata : metadata[i].run = run
    THEN [i \in DOMAIN metadata |->
             IF metadata[i].run = run THEN [metadata[i] EXCEPT !.sheet_name = sheet_name]
             ELSE metadata[i]]
    ELSE Append(metadata, [run |-> run, sheet_name |-> sheet_name])

\* lines 319-338: the rows after a valid form
created_rows(content, cleaned_data) ==
    LET source_pk == Len(content.file_sources) + 1
        run_pk == Len(content.runs) + 1
        sheet_name == IF cleaned_data.sheet_name = Missing THEN <<>>
                      ELSE cleaned_data.sheet_name
    IN  [file_sources |-> Append(content.file_sources,
                                 [pk |-> source_pk, file |-> cleaned_data.source_file.name]),
         runs |-> Append(content.runs, [pk |-> run_pk, file_source |-> source_pk]),
         metadata |-> IF sheet_name # <<>>
                      THEN update_or_create(content.metadata, run_pk, sheet_name)
                      ELSE content.metadata]

InitUpload ==
    /\ pc = "handle_upload"
    /\ request \in [source_file : UploadPool, sheet_name : SheetPosts]
    /\ form = <<>>
    /\ wizard_db \in {EmptyWizardDb, EarlierWizardDb}
    /\ wizard_before = wizard_db
    /\ response = <<>>
    /\ IdleSanitise /\ IdleHeaders /\ IdleRows /\ IdleSheet /\ IdleDb
    /\ IdleName /\ IdleMain /\ IdleImport /\ IdleFarmer

uploadIdleVars ==
    <<farmerVars, sanitiseVars, headerVars, rowVars, sheetVars, dbVars, nameVars, mainVars,
      importVars>>

\* lines 291-307: the form is built, given its choices and validated
ValidateUpload ==
    /\ pc = "handle_upload"
    /\ form' = bound_form(request.source_file, request.sheet_name)
    /\ pc' = "validated"
    /\ UNCHANGED <<request, wizard_db, wizard_before, response, uploadIdleVars>>

\* lines 307-345: the upload page again, or the rows and the redirect
RespondUpload ==
    /\ pc = "validated"
    /\ IF ~is_valid(form)
       THEN /\ response' = [status |-> 200, run |-> 0]
            /\ UNCHANGED wizard_db
       ELSE /\ wizard_db' = created_rows(wizard_db, form.cleaned_data)
            /\ response' = [status |-> 302, run |-> Len(wizard_db.runs) + 1]
    /\ pc' = "responded"
    /\ UNCHANGED <<request, form, wizard_before, uploadIdleVars>>

NextUpload == ValidateUpload \/ RespondUpload

SpecUpload == InitUpload /\ [][NextUpload]_vars

-----------------------------------------------------------------------------
(* The functions on their own: any of them, from its own inputs            *)

Init == InitSanitise \/ InitHeaders \/ InitRows \/ InitSheet \/ InitDb \/ InitName

Next == NextSanitise \/ NextHeaders \/ NextRows \/ NextSheet \/ NextDb \/ NextName

Spec == Init /\ [][Next]_vars

-----------------------------------------------------------------------------
(* Properties                                                              *)

\* a sanitised identifier: non-empty, only [0-9a-zA-Z_], no leading digit
IsIdentifier(v) ==
    /\ v # <<>>
    /\ \A i \in DOMAIN v : v[i] \in IdentChars
    /\ v[1] \notin DigitChars

\* C1: build_headers returns a list as long as raw_headers whose entries
\* are pairwise distinct.
C1_HeadersDistinct ==
    pc = "headers_built" =>
        /\ Len(headers) = Len(raw_headers)
        /\ \A i, j \in DOMAIN headers : i # j => headers[i] # headers[j]

\* C2 as stated: for every text and every fallback prefix the call returns a
\* non-empty string over [0-9a-zA-Z_] that does not start with a digit.
C2_SanitisedForEveryFallback ==
    pc = "sanitised" => identifier.exc = "none" /\ IsIdentifier(identifier.val)

\* C2 amended: for every text, and every fallback prefix that is non-empty
\* and consists of characters of [0-9a-zA-Z_], sanitise_identifier returns a
\* non-empty string over [0-9a-zA-Z_] that does not start with a digit.
C2_SanitisedIsIdentifier ==
    (/\ pc = "sanitised"
     /\ fallback_prefix # <<>>
     /\ \A i \in DOMAIN fallback_prefix : fallback_prefix[i] \in IdentChars)
    => identifier.exc = "none" /\ IsIdentifier(identifier.val)

\* an all-punctuation text fell back to a digit-leading prefix
C2_Witness ==
    /\ pc = "sanitised"
    /\ text = <<"-", " ", "-">>
    /\ fallback_prefix = <<"9", "x">>
    /\ identifier = Returned(<<"_", "9", "x">>)

\* the base name of the header at position i (1-based): the sanitised raw
\* value, or column_{i} when the raw value is missing or empty
C10_Base(i) ==
    LET position == column \o <<"_">> \o int_str(i)
    IN  IF raw_headers[i] = None \/ raw_headers[i] = StrCell(<<>>) THEN position
        ELSE sanitise_identifier(py_str(raw_headers[i]), position)

\* the occurrence number of position i's base name among positions 1..i
C10_Occurrence(i) == Cardinality({j \in 1..i : C10_Base(j) = C10_Base(i)})

\* C10: the header at position i is its base name at the first occurrence
\* of that base name, and "{base}_{n}" at the n-th occurrence, n >= 2.
C10_HeaderNames ==
    pc = "headers_built" =>
        /\ DOMAIN headers = DOMAIN raw_headers
        /\ \A i \in DOMAIN headers :
              headers[i] = IF C10_Occurrence(i) = 1 THEN C10_Base(i)
                           ELSE C10_Base(i) \o <<"_">> \o int_str(C10_Occurrence(i))

\* a third occurrence, a missing header and a header that sanitises to nothing
C10_Witness ==
    /\ pc = "headers_built"
    /\ raw_headers = <<StrCell(<<"a">>), StrCell(<<"A">>), StrCell(<<"a">>)>>
    /\ headers = <<<<"a">>, <<"a", "_", "2">>, <<"a", "_", "3">>>>

\* a blank cell: None or a string of white space only
BlankCell(cell) ==
    cell = None \/ (cell.k = "str" /\ \A i \in DOMAIN cell.s : cell.s[i] \in SpaceChars)

BlankRow(row) == \A c \in DOMAIN row : BlankCell(row[c])

\* the number of leading blank rows of a row list
LeadingBlanks(rs) ==
    CHOOSE k \in 0..Len(rs) :
        /\ \A i \in 1..k : BlankRow(rs[i])
        /\ k < Len(rs) => ~BlankRow(rs[k + 1])

\* C7: drop_leading_blank_rows(rows) returns rows[k:] for the index k of the
\* first non-blank row (the empty list when there is none), later blank rows
\* included, and leaves the input list as it was.
C7_DropLeadingBlankRows ==
    [][pc' = "dropped" =>
          /\ rows' = rows
          /\ remainder' = SubSeq(rows, LeadingBlanks(rows) + 1, Len(rows))]_vars

\* a blank prefix was dropped and a blank row after the first non-blank row kept
C7_Witness ==
    /\ pc = "dropped"
    /\ rows = <<<<None, StrCell(<<" ">>)>>, <<h_, None>>, <<None, None>>>>
    /\ remainder = <<<<h_, None>>, <<None, None>>>>

\* the score of a row: the number of its cells that are not blank
Score(row) == Cardinality({c \in DOMAIN row : ~BlankCell(row[c])})

\* C8: for non-empty rows and max_scan >= 1, detect_header_index returns the
\* smallest index among the scanned rows whose score is the maximum score of
\* the scanned rows.
C8_FirstMaximum ==
    (pc = "detected" /\ rows # <<>> /\ max_scan >= 1) =>
        LET scanned == Min(max_scan, Len(rows))
        IN  /\ header_idx \in 0..(scanned - 1)
            /\ \A j \in 0..(scanned - 1) : Score(rows[j + 1]) <= Score(rows[header_idx + 1])
            /\ \A j \in 0..(header_idx - 1) : Score(rows[j + 1]) < Score(rows[header_idx + 1])

\* scores 3, 5, 5, 2 select index 1
C8_Witness ==
    /\ pc = "detected"
    /\ rows = ScoreRows
    /\ max_scan = 10
    /\ header_idx = 1

\* C9: worksheet_to_dataframe returns no payload when no row is left after
\* trimming, and when the header row is the only row that is not blank.
C9_HeaderOnlyYieldsNone ==
    (pc = "assembled" /\ Cardinality({i \in DOMAIN rows : ~BlankRow(rows[i])}) <= 1)
    => payload = NonePayload

\* C6: after unmerge_cells, every cell of every declared merged range that
\* was empty (None or "") holds the value the range's top-left cell had
\* before the call, every other cell of the range is unchanged, and no
\* merged range is left.
C6_MergedRangesFilled ==
    pc = "unmerged" =>
        /\ ws.merged = <<>>
        /\ \A k \in DOMAIN loaded.merged :
              \A r \in DOMAIN loaded.cells : \A c \in DOMAIN loaded.cells[r] :
                  InRange(r, c, loaded.merged[k]) =>
                      ws.cells[r][c] =
                          IF loaded.cells[r][c] = None \/ loaded.cells[r][c] = StrCell(<<>>)
                          THEN loaded.cells[loaded.merged[k].min_row][loaded.merged[k].min_col]
                          ELSE loaded.cells[r][c]

\* one range was filled from its top-left text, and a cell of another range
\* kept a text that differs from its range's (missing) top-left value
C6_Witness ==
    /\ pc = "unmerged"
    /\ loaded.cells = <<<<h_, None, None>>, <<StrCell(<<>>), None, h_>>>>
    /\ loaded.merged = <<CellRange(1, 1, 2, 1), CellRange(1, 3, 2, 3)>>
    /\ ws.cells = <<<<h_, None, None>>, <<h_, None, h_>>>>
    /\ ws.merged = <<>>

\* the payload written last under a table name in the batch
LastPayloadNamed(name) ==
    payloads[CHOOSE i \in DOMAIN payloads :
                 /\ payloads[i].table_name = name
                 /\ \A j \in DOMAIN payloads : payloads[j].table_name = name => j <= i]

BatchTableNames == {payloads[i].table_name : i \in DOMAIN payloads}

\* C3: write_payloads_to_db is atomic over the batch: when a step raises,
\* the database holds exactly what it held before the call; when none does,
\* every payload's table and metadata are persisted.
C3_BatchAtomic ==
    pc = "returned" =>
        IF exc # "none" THEN db = before
        ELSE \A name \in BatchTableNames :
                 /\ name \in DOMAIN db.tables
                 /\ \E r \in db.table_metadata : r.table_name = name
                 /\ \E r \in db.column_metadata : r.table_name = name

\* C4: after a successful call, the data table of each payload's name holds
\* the rows of the payload written last under that name and nothing else
\* (also when a table of the name existed before the call), and
\* table_metadata has exactly one row for the name.
C4_RerunReplaces ==
    (pc = "returned" /\ exc = "none") =>
        \A name \in BatchTableNames :
            /\ name \in DOMAIN db.tables
            /\ db.tables[name].data = LastPayloadNamed(name).dataframe.data
            /\ Cardinality({r \in db.table_metadata : r.table_name = name}) = 1

\* the same worksheet was written by two successful calls in a row: the
\* table held its two rows before the second call and holds two after it
C4_Witness ==
    /\ pc = "returned" /\ exc = "none"
    /\ Len(payloads) = 1
    /\ payloads[1].sheet_name = plot_a
    /\ payloads[1].table_name \in DOMAIN before.tables
    /\ before.tables[payloads[1].table_name] = payloads[1].dataframe
    /\ Len(db.tables[payloads[1].table_name].data) = 2
    /\ before.table_metadata = {table_metadata_row(payloads[1])}

\* the worksheet a payload was made from
SourceOf(p) == CHOOSE source \in SourceSheets : PayloadOf(source) = p

\* the raw header text of a header cell ("" for a missing one)
RawHeaderText(cell) == IF cell = None THEN <<>> ELSE py_str(cell)

\* C5: after a successful call, for every table written and every column
\* position of it, column_metadata has exactly one row keyed by the table
\* and the position; it records the table's column name at the position and
\* the raw header text at the position in the worksheet the table came from.
C5_ColumnMetadataPerPosition ==
    (pc = "returned" /\ exc = "none") =>
        \A name \in BatchTableNames :
            /\ name \in DOMAIN db.tables
            /\ \A i \in 0..(Len(db.tables[name].columns) - 1) :
                  LET keyed == {r \in db.column_metadata :
                                   r.table_name = name /\ r.column_position = i}
                  IN  /\ Cardinality(keyed) = 1
                      /\ \A r \in keyed :
                            /\ r.column_name = db.tables[name].columns[i + 1]
                            /\ r.original_header =
                                   RawHeaderText(SourceOf(LastPayloadNamed(name)).header[i + 1])

\* a three-column table replaced a two-column table of the same name; the
\* row of position 1 records the de-duplicated name and the repeated header
C5_Witness ==
    /\ pc = "returned" /\ exc = "none"
    /\ \E name \in BatchTableNames :
          /\ name \in DOMAIN before.tables
          /\ Len(before.tables[name].columns) = 2
          /\ Len(db.tables[name].columns) = 3
          /\ [table_name |-> name, column_position |-> 1,
              column_name |-> <<"a", "_", "2">>, original_header |-> <<"a">>]
                 \in db.column_metadata

-----------------------------------------------------------------------------
(* build_table_name                                                        *)

\* C11: for every file stem and sheet name, build_table_name returns the
\* first 63 characters of sanitise_identifier(file_stem + "_" + sheet_name,
\* "table"); the name has 1 to 63 characters, all of them in [0-9a-zA-Z_],
\* and does not start with a digit.
C11_TableName ==
    pc = "table_named" =>
        LET full == sanitise_identifier(name_stem \o <<"_">> \o name_sheet, table)
        IN  /\ Len(built_name) \in 1..63
            /\ Len(built_name) = IF Len(full) > 63 THEN 63 ELSE Len(full)
            /\ \A i \in 1..Len(built_name) : built_name[i] = full[i]
            /\ \A i \in 1..Len(built_name) : built_name[i] \in IdentChars
            /\ built_name[1] \notin DigitChars

\* a stem and a sheet name whose sanitised concatenation is cut at 63
C11_Witness ==
    /\ pc = "table_named"
    /\ Len(sanitise_identifier(name_stem \o <<"_">> \o name_sheet, table)) > 63
    /\ Len(built_name) = 63

-----------------------------------------------------------------------------
(* main                                                                    *)

\* the database has been touched: a connection exists, or the content changed
DatabaseActivity == conn.state # "none" \/ db # before

\* C12: nothing is done on the database (no connection opened, no table or
\* metadata row written) before every input workbook has been processed into
\* payloads; and when processing a workbook raises, write_payloads_to_db is
\* never called and the database is as it was before the run.
C12_CollectBeforeWrite ==
    /\ DatabaseActivity =>
           /\ Len(opened) = Len(excel_paths)
           /\ path_no > Len(excel_paths)
           /\ payloads = all_payloads
    /\ (\E i \in 1..Len(opened) : ~load_workbook(opened[i]).readable) =>
           /\ ~DatabaseActivity
           /\ pc = "exit"
           /\ termination.exc \notin {"none", "SystemExit"}

\* a run that had collected payloads when a later workbook failed to load
C12_Witness ==
    /\ pc = "exit"
    /\ all_payloads # <<>>
    /\ termination = Raised("InvalidFileException")
    /\ db = EarlierDatabase

\* a path argument without pattern characters that names no existing file
MissingLiteral(path) == ~is_pattern(path) /\ ~path_exists(path)

\* C13: when any literal path argument does not exist, at whatever place
\* among valid arguments, the run ends in resolve_files with
\* FileNotFoundError: no workbook is opened and no payload is produced.
C13_MissingPathAborts ==
    ((\E i \in 1..Len(excel_files) : MissingLiteral(excel_files[i])) /\ pc # "main") =>
        /\ pc = "exit"
        /\ termination = Raised("FileNotFoundError")
        /\ opened = <<>>
        /\ excel_paths = <<>>
        /\ all_payloads = <<>>
        /\ ~DatabaseActivity

\* the missing path comes after a workbook that exists and has data
C13_Witness ==
    /\ pc = "exit"
    /\ excel_files = <<survey_xlsx, missing_xlsx>>
    /\ termination = Raised("FileNotFoundError")
    /\ opened = <<>>

\* every argument was resolved and no file is left to process
ResolvedToNothing ==
    /\ pc # "main"
    /\ \A i \in 1..Len(excel_files) : ~MissingLiteral(excel_files[i])
    /\ excel_paths = <<>>

\* the worksheet gives no payload
YieldsNothing(path, sheet) ==
    worksheet_to_dataframe(path, sheet, DefaultMaxHeaderScan) = NonePayload

\* there are workbooks to process, and no worksheet of any gives a payload
NothingUsable ==
    /\ excel_paths # <<>>
    /\ \A i \in 1..Len(excel_paths) :
          LET wb == load_workbook(excel_paths[i])
          IN  /\ wb.readable
              /\ \A j \in 1..Len(wb.sheets) : YieldsNothing(wb.path, wb.sheets[j])

\* C14: when the arguments resolve to no existing file (every argument a
\* pattern without a match), and when every worksheet of every input
\* workbook yields no payload, main ends with SystemExit and a message,
\* write_payloads_to_db is not called and nothing is written.
C14_NothingToWrite ==
    /\ ResolvedToNothing =>
           /\ pc = "exit"
           /\ termination = SystemExit("No Excel files matched the provided arguments.")
           /\ opened = <<>>
           /\ ~DatabaseActivity
    /\ NothingUsable =>
           /\ pc \in {"process", "collected", "exit"}
           /\ pc = "exit" =>
                 termination = SystemExit("No usable worksheets found across provided files.")
           /\ ~DatabaseActivity

\* two workbooks were opened, neither gave a payload, and the run has ended
C14_Witness ==
    /\ pc = "exit"
    /\ NothingUsable
    /\ Len(opened) = 2
    /\ all_payloads = <<>>
    /\ termination.exc = "SystemExit"
    /\ db = EarlierDatabase

RECURSIVE Flatten(_)
Flatten(lists) == IF lists = <<>> THEN <<>> ELSE Head(lists) \o Flatten(Tail(lists))

\* the payloads of the worksheets of one workbook, in sheet order, the
\* worksheets without a payload left out
WorkbookPayloads(path) ==
    LET wb == load_workbook(path)
    IN  SelectSeq([j \in 1..Len(wb.sheets) |->
                      worksheet_to_dataframe(path, wb.sheets[j], DefaultMaxHeaderScan)],
                  LAMBDA p : p # NonePayload)

\* the payloads of a list of workbooks, in list order
CollectedFrom(paths) == Flatten([i \in 1..Len(paths) |-> WorkbookPayloads(paths[i])])

\* C15: a worksheet or a workbook without a payload does not end the batch:
\* every later worksheet and workbook is processed, and the list handed to
\* write_payloads_to_db is the payloads of all worksheets that have one, in
\* input-file order and within a file in sheet order, none lost or repeated.
C15_PayloadsInOrder ==
    /\ pc \in {"process", "collected"} =>
           /\ opened = SubSeq(excel_paths, 1, path_no - 1)
           /\ all_payloads = CollectedFrom(opened)
    /\ pc \in {"schema", "to_sql", "table_metadata", "column_metadata", "commit",
                "finally", "returned"} =>
           /\ opened = excel_paths
           /\ payloads = CollectedFrom(excel_paths)

\* write_payloads_to_db is called with the two payloads of survey.xlsx, whose
\* second worksheet has none, after a workbook without any payload
C15_Witness ==
    /\ pc = "schema"
    /\ excel_paths = <<blank_xlsx, survey_xlsx>>
    /\ Len(payloads) = 2
    /\ payloads[2].sheet_name = totals_sheet.title

-----------------------------------------------------------------------------
(* Exceptions of the pure functions                                        *)

\* C16 as stated: sanitise_identifier raises for no text and no
\* fallback_prefix, the empty fallback_prefix included, and
\* detect_header_index raises for no row list and no max_scan.
C16_NeverRaise ==
    /\ pc = "sanitised" => identifier.exc = "none"
    /\ pc = "detected" => detect_exc = "none"

\* C16: sanitise_identifier raises for no text when fallback_prefix is not
\* empty, and detect_header_index raises for no row list (the empty one
\* included) and no integer max_scan; both return a value.
C16_NeverRaiseWithFallback ==
    /\ (pc = "sanitised" /\ fallback_prefix # <<>>) =>
           /\ identifier.exc = "none"
           /\ identifier.val # <<>>
    /\ pc = "detected" =>
           /\ detect_exc = "none"
           /\ header_idx \in 0..Len(rows)

\* a text of white space and punctuation only: the fallback is returned
C16_Witness ==
    /\ pc = "sanitised"
    /\ text = <<" ", "-", "_", " ">>
    /\ fallback_prefix = table
    /\ identifier = Returned(table)

-----------------------------------------------------------------------------
(* The connection of write_payloads_to_db                                  *)

\* C17: an invocation of write_payloads_to_db opens the connection once
\* and closes it once on every exit path: after normal completion and after
\* an exception of the schema creation, of a payload's table write or
\* metadata upsert, or of the commit.
C17_OpenedAndClosedOnce ==
    /\ pc \in {"schema", "to_sql", "table_metadata", "column_metadata", "commit", "finally"} =>
           opens = 1 /\ closes = 0 /\ conn.state = "open"
    /\ pc = "returned" =>
           opens = 1 /\ closes = 1 /\ conn.state = "closed"

\* the invocation has ended with the exception raised while the second
\* payload was being written
C17_Witness ==
    /\ pc = "returned"
    /\ exc = "InterfaceError"
    /\ payload_no = 2
    /\ opens = 1 /\ closes = 1

-----------------------------------------------------------------------------
(* The worksheet 'Plot A' of survey.xlsx, from the file to the database    *)

survey_plot_a == <<"s", "u", "r", "v", "e", "y", "_", "p", "l", "o", "t", "_", "a">>

\* the rows column_metadata holds for a table
ColumnMetadataOf(name) == {r \in db.column_metadata : r.table_name = name}

\* C18: for survey.xlsx with the worksheet 'Plot A' (a blank row, the header
\* row 'Farmer Name', 'Farmer Name', '2020', the data row 'Jane',
\* 'Jane Doe', 5) a run that completes has taken the header row, not the
\* equally dense data row, as header: the table 'survey_plot_a' has the
\* columns farmer_name, farmer_name_2, _2020 and one data row, and
\* column_metadata maps its positions 0, 1, 2 to these names with the
\* original headers 'Farmer Name', 'Farmer Name', '2020'.
C18_SurveyPlotA ==
    /\ (pc = "collected" /\ \E i \in 1..Len(excel_paths) : excel_paths[i] = survey_xlsx) =>
           \E i \in 1..Len(all_payloads) :
              /\ all_payloads[i].table_name = survey_plot_a
              /\ all_payloads[i].sheet_name = plot_a
              /\ Len(all_payloads[i].dataframe.data) = 1
    /\ (pc = "exit" /\ termination = Returned(<<>>)
           /\ \E i \in 1..Len(excel_paths) : excel_paths[i] = survey_xlsx) =>
        /\ \E i \in 1..Len(payloads) :
              /\ payloads[i].table_name = survey_plot_a
              /\ payloads[i].sheet_name = plot_a
              /\ payloads[i].original_headers = <<<<"F", "a", "r", "m", "e", "r", " ", "N", "a", "m", "e">>, <<"F", "a", "r", "m", "e", "r", " ", "N", "a", "m", "e">>, <<"2", "0", "2", "0">>>>
        /\ survey_plot_a \in DOMAIN db.tables
        /\ db.tables[survey_plot_a] =
              [columns |-> <<<<"f", "a", "r", "m", "e", "r", "_", "n", "a", "m", "e">>, <<"f", "a", "r", "m", "e", "r", "_", "n", "a", "m", "e", "_", "2">>, <<"_", "2", "0", "2", "0">>>>,
               data |-> << <<StrCell(<<"J", "a", "n", "e">>), StrCell(<<"J", "a", "n", "e", " ", "D", "o", "e">>), IntCell(5)>> >>]
        /\ ColumnMetadataOf(survey_plot_a) =
              { [table_name |-> survey_plot_a, column_position |-> 0,
                 column_name |-> <<"f", "a", "r", "m", "e", "r", "_", "n", "a", "m", "e">>, original_header |-> <<"F", "a", "r", "m", "e", "r", " ", "N", "a", "m", "e">>],
                [table_name |-> survey_plot_a, column_position |-> 1,
                 column_name |-> <<"f", "a", "r", "m", "e", "r", "_", "n", "a", "m", "e", "_", "2">>, original_header |-> <<"F", "a", "r", "m", "e", "r", " ", "N", "a", "m", "e">>],
                [table_name |-> survey_plot_a, column_position |-> 2,
                 column_name |-> <<"_", "2", "0", "2", "0">>, original_header |-> <<"2", "0", "2", "0">>] }

\* the run over survey.xlsx alone has completed, on top of an earlier
\* database that held a table of the same name
C18_Witness ==
    /\ pc = "exit"
    /\ termination = Returned(<<>>)
    /\ excel_files = <<survey_xlsx>>
    /\ before = EarlierDatabase
    /\ Len(db.tables[survey_plot_a].data) = 1
    /\ Cardinality(ColumnMetadataOf(survey_plot_a)) = 3

-----------------------------------------------------------------------------
(* unmerge_cells on a worksheet without merged ranges                      *)

\* C19: on a worksheet with no merged range unmerge_cells changes no cell
\* value, so that applying it twice in a row gives the grid that applying it
\* once gives.
C19_UnmergeTwice ==
    /\ (pc = "unmerged" /\ loaded.merged = <<>>) => ws = loaded
    /\ pc = "unmerged_twice" =>
           /\ unmerged_once.merged = <<>>
           /\ ws = unmerged_once

\* two calls on a worksheet without merged ranges that has empty cells
\* beside a text
C19_Witness ==
    /\ pc = "unmerged_twice"
    /\ loaded.merged = <<>>
    /\ loaded.cells = <<<<h_, None, None>>, <<StrCell(<<>>), None, h_>>>>
    /\ ws = loaded

-----------------------------------------------------------------------------
(* _do_import on a dataset without data rows                               *)

\* C20: an import over a dataset with a header and no data row completes:
\* _do_import reaches the 'import_complete' event and returns a status with
\* current = 0 and an empty skipped list, and no record is created.
C20_HeaderOnlyImportCompletes ==
    (pc = "import_ended" /\ table_rows = <<>>) =>
        /\ import_status = Returned(import_result(0, 0, <<>>))
        /\ \E k \in 1..Len(log_events) : log_events[k] = "import_complete"
        /\ record_set = <<>>

-----------------------------------------------------------------------------
(* The scan window of detect_header_index                                  *)

\* C24: for non-empty rows and max_scan >= 1, detect_header_index looks at
\* the first min(max_scan, len(rows)) rows only: the index it returns is
\* below that number, it is the one the scanned rows alone determine, and a
\* row at or beyond index max_scan is not selected even when its score is
\* higher than the score of every scanned row.
C24_ScanWindow ==
    (pc = "detected" /\ rows # <<>> /\ max_scan >= 1) =>
        LET scanned == IF max_scan < Len(rows) THEN max_scan ELSE Len(rows)
        IN  /\ 0 <= header_idx /\ header_idx < scanned
            /\ header_idx + 1 <= max_scan
            /\ header_idx = detect_header_index(SubSeq(rows, 1, scanned), max_scan)
            /\ \A longer \in RowPool :
                  header_idx = detect_header_index(Append(SubSeq(rows, 1, scanned), longer),
                                                   scanned)

\* the row after the scan window has the highest score and is not selected
C24_Witness ==
    /\ pc = "detected"
    /\ max_scan = 1
    /\ rows = <<<<h_, None>>, <<h_, h_>>>>
    /\ header_idx = 0

-----------------------------------------------------------------------------
(* The data rows of a payload                                              *)

\* the rows handed to worksheet_to_dataframe without their leading blank rows
Trimmed == SubSeq(rows, LeadingBlanks(rows) + 1, Len(rows))

\* C25: in a payload of worksheet_to_dataframe with header index h, the data
\* rows are the rows of the trimmed grid after index h that are not
\* entirely blank, in their order: no row at or before h is among them and
\* no row after h that is not blank is dropped.
C25_DataRowsAfterHeader ==
    (pc = "assembled" /\ payload # NonePayload) =>
        LET h == detect_header_index(Trimmed, max_scan)
        IN  payload.dataframe.data =
                SelectSeq(SubSeq(Trimmed, h + 2, Len(Trimmed)), LAMBDA row : ~BlankRow(row))

\* the string form of a header cell: the text of a text cell, the decimal
\* digits of a number, nothing for a cell that is None
HeaderCellText(cell) ==
    IF cell = None THEN <<>>
    ELSE IF cell.k = "str" THEN cell.s
    ELSE int_str(cell.n)

\* C26: in every payload of worksheet_to_dataframe, original_headers is as
\* long as the list of column names, and its i-th entry is the string form
\* of the i-th header cell, "" when the cell is None, in column order.
C26_OriginalHeaders ==
    (pc = "assembled" /\ payload # NonePayload) =>
        LET header_row == Trimmed[detect_header_index(Trimmed, max_scan) + 1]
        IN  /\ Len(payload.original_headers) = Len(payload.dataframe.columns)
            /\ Len(payload.original_headers) = Len(header_row)
            /\ \A i \in 1..Len(header_row) :
                  payload.original_headers[i] = HeaderCellText(header_row[i])

\* a header row of a missing cell and a number
C26_Witness ==
    /\ pc = "assembled"
    /\ rows = <<<<None, IntCell(0)>>, <<h_, h_>>>>
    /\ max_scan = 1
    /\ payload # NonePayload
    /\ payload.original_headers = <<<<>>, <<"0">>>>

-----------------------------------------------------------------------------
(* Two payloads of one table name                                          *)

\* C27: when two payloads of a batch have the same table_name, the call
\* raises no error on that account and the later payload wins: after the
\* call the data table holds the later payload's rows only, and the
\* table_metadata row of the name records the later payload's source file
\* and worksheet.
C27_LaterPayloadWins ==
    (pc = "returned" /\ exc = "none") =>
        \A i, j \in DOMAIN payloads :
            (i < j /\ payloads[i].table_name = payloads[j].table_name
                 /\ \A k \in DOMAIN payloads :
                       k > j => payloads[k].table_name # payloads[j].table_name) =>
                /\ db.tables[payloads[j].table_name] = payloads[j].dataframe
                /\ {r \in db.table_metadata : r.table_name = payloads[j].table_name} =
                      { [table_name |-> payloads[j].table_name,
                         source_file |-> payloads[j].source_file.stem
                                             \o payloads[j].source_file.suffix,
                         worksheet |-> payloads[j].sheet_name] }

\* 'Plot A' and then 'plot-a' of survey.xlsx were written by one call that
\* raised nothing
C27_Witness ==
    /\ pc = "returned" /\ exc = "none"
    /\ Len(payloads) = 2
    /\ payloads[1].table_name = payloads[2].table_name
    /\ payloads[1].sheet_name = plot_a
    /\ payloads[2].sheet_name # plot_a
    /\ db.tables[payloads[2].table_name] = payloads[2].dataframe

\* the column positions column_metadata holds for a table
ColumnPositions(content, name) ==
    {r.column_position : r \in {q \in content.column_metadata : q.table_name = name}}

\* column_metadata describes the columns of every table, and no other
NoStaleColumns(content) ==
    \A name \in DOMAIN content.tables :
        ColumnPositions(content, name) = 0..(Len(content.tables[name].columns) - 1)

\* C29: after any sequence of successful write_payloads_to_db calls, a
\* rerun and a collision with a narrower later payload included,
\* column_metadata has no stale row: for every table the column positions
\* recorded are 0 .. n-1, n the number of columns the table has now.
C29_NoStaleColumnMetadata ==
    (pc = "returned" /\ exc = "none" /\ NoStaleColumns(before)) => NoStaleColumns(db)

\* The sanitised form of an identifier: lower-case letters, digits and single
\* underscores, no trailing underscore, no leading digit, and a leading
\* underscore only in front of a digit.
SanitisedForm(f) ==
    /\ f # <<>>
    /\ \A i \in DOMAIN f : f[i] \in (Range(LowerLetters) \cup DigitChars \cup {"_"})
    /\ \A i \in 1..(Len(f) - 1) : ~(f[i] = "_" /\ f[i + 1] = "_")
    /\ f[Len(f)] # "_"
    /\ f[1] \notin DigitChars
    /\ f[1] = "_" => f[2] \in DigitChars

-----------------------------------------------------------------------------
(* The records of _do_import                                               *)

\* C21: the record of a row whose object is a model instance with a UUID
\* primary key has success = true, the object's model as content_type and
\* no object_id; for a model instance with another key the record's
\* content_object is the object; for a result that is no model instance
\* neither content_type nor object_id nor content_object is set.
C21_RecordObject ==
    \A k \in 1..Len(record_set) :
        LET obj == table_rows[k].obj
            record == record_set[k]
        IN  /\ (obj.kind = "model" /\ (obj.pk_field = "UUIDField" \/ obj.pk.t = "UUID")) =>
                   /\ record.success
                   /\ record.content_type = obj.model
                   /\ record.object_id = NoPk
            /\ (obj.kind = "model" /\ obj.pk.t = "int") =>
                   /\ record.content_object = obj
                   /\ record.object_id = obj.pk
            /\ (obj.kind = "model" /\ obj.pk.t = "str" /\ obj.pk_field # "UUIDField") =>
                   IF obj.pk.v \in UuidTexts
                   THEN record.content_type = obj.model /\ record.object_id = NoPk
                   ELSE record.content_object = obj
            /\ obj.kind # "model" =>
                   /\ record.content_type = "none"
                   /\ record.object_id = NoPk
                   /\ record.content_object = NoObject

C21_Witness ==
    /\ pc = "import_ended"
    /\ table_rows = <<RowResult(farmer, "none"), RowResult(plot, "none"),
                      RowResult(OtherObject, "none")>>
    /\ record_set[1].content_type = "farmer" /\ record_set[1].object_id = NoPk
    /\ record_set[2].content_object = plot
    /\ record_set[3].content_type = "none"

\* C28: for a run with n >= 1 data rows, a completed _do_import has saved one
\* record per row, in row order; a record has success = true exactly when
\* the row's import_row returned no error, and a fail_reason exactly when
\* it returned one; the skipped list of the returned status has one entry
\* per failed row; run.record_count is the number of records with
\* success = true; 'do_import' is logged before any record is saved and
\* 'import_complete' after the last one.
C28_OneRecordPerRow ==
    /\ (pc = "import_ended" /\ table_rows # <<>>) =>
           /\ Len(record_set) = Len(table_rows)
           /\ \A k \in 1..Len(record_set) :
                  /\ record_set[k].row = rownum(k - 1, tabular, start_row)
                  /\ record_set[k].success <=> table_rows[k].error = "none"
                  /\ record_set[k].fail_reason # "none" <=> table_rows[k].error # "none"
                  /\ record_set[k].fail_reason = table_rows[k].error
           /\ import_status.exc = "none"
           /\ import_status.val.skipped =
                  [n \in 1..Cardinality({k \in 1..Len(table_rows) : table_rows[k].error # "none"}) |->
                      LET k == CHOOSE k \in 1..Len(table_rows) :
                                  /\ table_rows[k].error # "none"
                                  /\ Cardinality({m \in 1..k : table_rows[m].error # "none"}) = n
                      IN  [row |-> record_set[k].row + 1, reason |-> table_rows[k].error]]
           /\ record_count = Cardinality({k \in 1..Len(record_set) : record_set[k].success})
           /\ log_events = <<"do_import", "import_complete">>
    /\ record_set # <<>> => log_events # <<>> /\ log_events[1] = "do_import"
    /\ (\E e \in 1..Len(log_events) : log_events[e] = "import_complete") =>
           Len(record_set) = Len(table_rows) /\ pc = "import_ended"

C28_Witness ==
    /\ pc = "import_ended"
    /\ Len(table_rows) = 3
    /\ table_rows[1].error = "none" /\ table_rows[2].error # "none" /\ table_rows[3].error = "none"
    /\ record_count = 2
    /\ Len(import_status.val.skipped) = 1
    /\ tabular /\ start_row = 1

-----------------------------------------------------------------------------
(* The farmer a text value resolves to                                     *)

\* the text of the value as the field looks it up (surrounding whitespace removed)
LookedUp == str_strip(field_value.s, SpaceChars)

\* C23: a text value resolves to the farmer whose registration_id equals it
\* whenever there is one, also when several farmers share a name; a farmer
\* found otherwise is the only farmer with that name and no registration_id,
\* and no registration_id equals the value; a missing or blank value, and a
\* value that matches no farmer, raise a validation error.
C23_RegistrationIdFirst ==
    pc = "farmer_resolved" =>
        /\ (field_value.k = "str" /\ LookedUp # <<>>) =>
               /\ \A i \in DOMAIN farmers :
                      farmers[i].registration_id = LookedUp =>
                          farmer_found = Returned(<<farmers[i].farmer_id>>)
               /\ \A i \in DOMAIN farmers :
                      (farmer_found = Returned(<<farmers[i].farmer_id>>)
                          /\ farmers[i].registration_id # LookedUp) =>
                          /\ \A j \in DOMAIN farmers : farmers[j].registration_id # LookedUp
                          /\ farmers[i].name = LookedUp
                          /\ farmers[i].registration_id \in {NullId, <<>>}
                          /\ \A j \in DOMAIN farmers :
                                 (farmers[j].name = LookedUp
                                     /\ farmers[j].registration_id \in {NullId, <<>>}) => j = i
               /\ farmer_found.exc = "none" =>
                      \E i \in DOMAIN farmers : farmer_found.val = <<farmers[i].farmer_id>>
               /\ (\A i \in DOMAIN farmers :
                      /\ farmers[i].registration_id # LookedUp
                      /\ farmers[i].name # LookedUp) => farmer_found = Raised("name_missing")
        /\ field_value = None => farmer_found = Raised("required")
        /\ (field_value.k = "str" /\ LookedUp = <<>>) => farmer_found = Raised("blank")

C23_Witness ==
    /\ pc = "farmer_resolved"
    /\ farmers = <<Farmer(1, jo, NullId), Farmer(2, jo, NullId), Farmer(3, ra, jo)>>
    /\ field_value = StrCell(jo)
    /\ farmer_found = Returned(<<3>>)

-----------------------------------------------------------------------------
(* The upload step of the import wizard                                    *)

\* an upload the file field accepts that is a workbook by extension or type
WorkbookUpload ==
    /\ request.source_file.present
    /\ request.source_file.size > 0
    /\ is_workbook(request.source_file)

\* no sheet_name posted, or an empty or blank one
EmptySheetName ==
    request.sheet_name = NotPosted \/ str_strip(request.sheet_name, SpaceChars) = <<>>

\* the Run and ImportRunMetadata rows the request added
NewRuns == SubSeq(wizard_db.runs, Len(wizard_before.runs) + 1, Len(wizard_db.runs))
NewMetadata ==
    SubSeq(wizard_db.metadata, Len(wizard_before.metadata) + 1, Len(wizard_db.metadata))

\* C22: a workbook upload with an empty sheet_name is rejected with a
\* sheet_name form error and creates no FileSource, Run or
\* ImportRunMetadata; a valid upload with a selected sheet creates exactly
\* one Run and one ImportRunMetadata, of that run, whose sheet_name is the
\* selected sheet.
C22_UploadStep ==
    pc = "responded" =>
        /\ (WorkbookUpload /\ EmptySheetName) =>
               /\ form.errors.sheet_name # <<>>
               /\ response.status = 200
               /\ wizard_db = wizard_before
        /\ (is_valid(form) /\ ~EmptySheetName) =>
               /\ Len(NewRuns) = 1
               /\ Len(NewMetadata) = 1
               /\ SubSeq(wizard_db.runs, 1, Len(wizard_before.runs)) = wizard_before.runs
               /\ SubSeq(wizard_db.metadata, 1, Len(wizard_before.metadata)) =
                      wizard_before.metadata
               /\ NewMetadata[1].run = NewRuns[1].pk
               /\ NewMetadata[1].sheet_name = request.sheet_name

=============================================================================
